---- MODULE Spec2Model ----
(***************************************************************************)
(* The consultant/skill repository of go-service-api (package database,    *)
(* type PostgresDB) over its three PostgreSQL tables.                      *)
(*                                                                         *)
(* The store `db` is what a statement of any connection can see: the       *)
(* committed rows of skills, consultants and consultant_skills, and the    *)
(* two SERIAL sequences.  A request (`req[p]`) is one call of a repository *)
(* method; it advances one SQL statement at a time.  The writes of a       *)
(* statement run on a *sql.Tx stay in the request's transaction (`newid`,  *)
(* `locked`, `del`, `ins`) until Commit installs them; PostgreSQL's READ   *)
(* COMMITTED rules (row locks, unique-index waits, foreign-key checks and  *)
(* cascades) decide when a statement waits, fails or succeeds.             *)
(***************************************************************************)
EXTENDS Integers, Sequences, FiniteSets, TLC

\* ------------------------------------------------------------------ bounds
\* The consultants_id_seq / skills_id_seq values the model lets a run reach,
\* and the longest skill_ids list a request carries.
MaxConsultants == 2
MaxSkills == 2
MaxListLen == 2

ConsultantIds == 1..MaxConsultants
SkillIds == 1..MaxSkills

\* Request bodies: a consultant's name and email, a skill's name.
People == { [name |-> "Ann", email |-> "ann@x.com"],
            [name |-> "Bob", email |-> "bob@x.com"] }
SkillBodies == { [name |-> "Go", description |-> "Backend"],
                 [name |-> "SQL", description |-> ""] }

\* Every skill_ids list of length 0..MaxListLen (duplicates and ids of absent
\* skills included).
SkillLists == UNION { [1..n -> SkillIds] : n \in 0..MaxListLen }

\* The requests that run at the same time in the request-parallel server.
Procs == {"r1", "r2"}

VARIABLES
    db,        \* the store: committed tables and the two id sequences
    req,       \* req[p]: the repository call request p is running
    supplied,  \* history: supplied[c] = skill-id set of the last successful
               \*          CreateConsultant/UpdateConsultant of consultant c
    ref,       \* history: the tables holding exactly the effects of the
               \*          calls that returned success, each applied at once
    process,   \* the service process: where main() is, what it has opened
    mem        \* the in-memory data.Store, its mutex and the goroutines
               \* that call it

vars == <<db, req, supplied, ref, process, mem>>

\* ---------------------------------------------------------------- helpers
Range(s) == { s[i] : i \in DOMAIN s }

\* SELECT skill_id FROM consultant_skills WHERE consultant_id = c
SkillsOf(cs, c) == { a[2] : a \in { x \in cs : x[1] = c } }

\* The emails (resp. skill names) of the committed rows other than row `id`.
EmailsBut(d, id) == { d.consultants[c].email : c \in (DOMAIN d.consultants) \ {id} }
NamesBut(d, id) == { d.skills[s].name : s \in (DOMAIN d.skills) \ {id} }

\* A function without / with one more key.
Drop(f, k) == [ x \in (DOMAIN f) \ {k} |-> f[x] ]
Put(f, k, v) == [ x \in (DOMAIN f) \cup {k} |-> IF x = k THEN v ELSE f[x] ]

\* All orders in which the store may return a set of rows.
Orders(S) == { q \in [1..Cardinality(S) -> S] : Range(q) = S }

\* The tables of a store, without the sequences.
Tables(d) == [consultants |-> d.consultants, skills |-> d.skills, cs |-> d.cs]

\* A database without tables (schema: the tables that exist), and the
\* database after initDatabase on it: three empty tables, sequences at 1.
NoRows == [x \in {} |-> 0]
AllTables == {"skills", "consultants", "consultant_skills"}
Fresh ==
    [consultants |-> NoRows, skills |-> NoRows, cs |-> {}, nextC |-> 1, nextS |-> 1,
     schema |-> {}]
EmptyDB ==
    [consultants |-> NoRows, skills |-> NoRows, cs |-> {}, nextC |-> 1, nextS |-> 1,
     schema |-> AllTables]

\* ------------------------------------------------------------ the requests
\* A request that runs nothing.  kind: the repository method; pc: the next
\* statement; id, name, email, skills: the arguments; newid, locked, del,
\* ins: the transaction's uncommitted writes (the consultant row it inserted,
\* the consultant row it updated and holds locked, the association rows it
\* deleted and inserted); description: a skill's; n: the loop index; list,
\* slist: the consultants / skills read or returned so far; trunc: an
\* association read stopped early; ctx: the call's timeout context ("none",
\* "live", "released"); tx: the transaction the call began ("none", "open",
\* "committed", "rolledback"); cid: the ID field of the consultant in the
\* request body (0 when the body has none); json: the body can be decoded;
\* status: the status code of the response, 0 before the handler wrote it;
\* err: the returned error; pre: the store when the call began, prev: the
\* last successful write before the call, seen: the ids the creates returned
\* so far, step: how many calls of the documented scenario the run has made
\* so far, -1 once it made any other (all four kept by a sequential client
\* only).
NoSnap == [consultants |-> NoRows, skills |-> NoRows, cs |-> {<<0, 0>>}]
NoPrev == [kind |-> "none", id |-> 0, name |-> "", email |-> "", skills |-> << >>, had |-> {}]
NoSeen == [consultants |-> {}, skills |-> {}]
Idle ==
    [kind |-> "none", pc |-> "idle", id |-> 0, name |-> "", email |-> "",
     description |-> "", skills |-> << >>, newid |-> 0, locked |-> FALSE, del |-> {}, ins |-> {},
     n |-> 0, list |-> << >>, slist |-> << >>, trunc |-> FALSE, err |-> "none",
     pre |-> NoSnap, prev |-> NoPrev, seen |-> NoSeen, step |-> 0,
     ctx |-> "none", tx |-> "none", cid |-> 0, json |-> TRUE, status |-> 0]

Running(r) == r.pc \notin {"idle", "done"}

\* The model.Consultant / model.Skill values a call reads and returns.
ConsultantVal(id, row, sk) ==
    [id |-> id, name |-> row.name, email |-> row.email, skills |-> sk]
SkillVal(id, row) == [id |-> id, name |-> row.name, description |-> row.description]

\* Faulty variant: an update addresses the consultant the body's ID names.
TxTarget_BodyId(r) ==
    IF r.kind = "CreateConsultant" THEN r.newid ELSE IF r.cid # 0 THEN r.cid ELSE r.id
\* The consultant a transaction writes: the id RETURNING gave (create), the
\* id of the path (update; consultant.ID = id overwrites the body's).
TxTarget(r) == IF r.kind = "CreateConsultant" THEN r.newid ELSE r.id
\* tx.Commit(): the transaction's writes are installed at once.
TxCommit(d, r) ==
    LET c == TxTarget(r)
        row == [name |-> r.name, email |-> r.email]
    IN  [d EXCEPT
           !.consultants = IF r.newid # 0 \/ r.locked THEN Put(@, c, row) ELSE @,
           !.cs = (@ \ { <<c, s>> : s \in r.del }) \cup { <<c, s>> : s \in r.ins }]

\* Faulty variant: the writes of a transaction that is rolled back stay.
TxRollback_Keeps(d, r) == TxCommit(d, r)
\* tx.Rollback(): the transaction's writes are discarded.
TxRollback(d, r) == d

\* tx, err := db.db.BeginTx(ctx, nil); defer tx.Rollback()
Begin(r) == [r EXCEPT !.tx = "open"]
\* tx.Commit() returned nil
Commit(r) == [r EXCEPT !.tx = "committed"]
\* The deferred calls of a return: tx.Rollback() (ignored when the
\* transaction is committed or none was begun) and cancel().
Deferred(r) ==
    [r EXCEPT !.tx = IF @ = "open" THEN "rolledback" ELSE @, !.ctx = "released",
              !.locked = FALSE, !.del = {}, !.ins = {}]

\* return ..., nil
Return(r) == [Deferred(r) EXCEPT !.pc = "done", !.err = "nil"]
\* Faulty variant: an error return runs no deferred call.
ReturnErr_NoDefer(r, e) ==
    [r EXCEPT !.pc = "done", !.err = e, !.list = << >>, !.slist = << >>, !.trunc = FALSE]
\* return models.Consultant{}, err
ReturnErr(r, e) ==
    [Deferred(r) EXCEPT !.pc = "done", !.err = e,
                        !.list = << >>, !.slist = << >>, !.trunc = FALSE]

\* ------------------------------------------------- PostgreSQL's lock waits
\* Transaction t holds an uncommitted consultant row write.
WritesRow(t) ==
    /\ Running(t)
    /\ \/ t.kind = "CreateConsultant" /\ t.newid # 0
       \/ t.kind = "UpdateConsultant" /\ t.locked
\* Faulty variant: no insert waits for an uncommitted row carrying its email.
EmailWait_Never(d, oth, e) == FALSE
\* Unique index consultants(email): an insert of email e waits for every open
\* transaction whose uncommitted row carries e or replaces a row carrying e.
EmailWait(d, oth, e) ==
    \E t \in oth :
        /\ WritesRow(t)
        /\ \/ t.email = e
           \/ t.locked /\ t.id \in DOMAIN d.consultants
                       /\ d.consultants[t.id].email = e
\* Faulty variant: no statement waits for the row lock of the consultant.
RowWait_Never(oth, c) == FALSE
\* Faulty variant: the row lock outlives the call that took it.
RowWait_Kept(oth, c) ==
    \E t \in oth : t.pc # "idle" /\ t.kind = "UpdateConsultant" /\ t.id = c
\* Row lock of consultant c, taken by UPDATE consultants ... WHERE id = c.
RowWait(oth, c) ==
    \E t \in oth : Running(t) /\ t.kind = "UpdateConsultant" /\ t.locked /\ t.id = c
\* FOR KEY SHARE lock on skill s (taken by the foreign-key check of an
\* uncommitted association insert) or a lock on an association row of s
\* (taken by an uncommitted association delete).
SkillWait(oth, s) ==
    \E t \in oth : Running(t) /\ (s \in t.ins \/ s \in t.del)

\* One outcome of a statement: the store and the request after it.
Out(d, r) == [d |-> d, r |-> r]

\* ----------------------------------------------------------- GetConsultant
\* BeginTx; SELECT id, name, email FROM consultants WHERE id = $1
GetConsultant_Row(d, r) ==
    IF r.id \in DOMAIN d.consultants
    THEN { Out(d, [Begin(r) EXCEPT !.pc = "gc_skills",
                                   !.list = << ConsultantVal(r.id, d.consultants[r.id], {}) >>]) }
    ELSE { Out(TxRollback(d, r), ReturnErr(Begin(r), "notfound")) }

\* Faulty variant: the skill ids read are not put into the consultant returned.
GetConsultant_Skills_Dropped(d, r) == { Out(TxCommit(d, r), Return(Commit(r))) }
\* SELECT skill_id FROM consultant_skills WHERE consultant_id = $1; Commit
GetConsultant_Skills(d, r) ==
    { Out(TxCommit(d, r),
          Return(Commit([r EXCEPT !.list[1].skills = SkillsOf(d.cs, r.id)]))) }

\* ------------------------------- GetAllConsultants, GetConsultantsBySkill
\* The consultants of the first query, in an order the store chooses, their
\* SkillIDs still empty; an empty result returns at once.
Collected(d, r, q) ==
    LET l == [ i \in 1..Len(q) |-> ConsultantVal(q[i], d.consultants[q[i]], {}) ]
    IN  IF Len(q) = 0 THEN Return([r EXCEPT !.list = l])
        ELSE [r EXCEPT !.list = l, !.n = 0, !.pc = "skills"]

\* SELECT id, name, email FROM consultants
GetAllConsultants_Rows(d, r) ==
    { Out(d, Collected(d, r, q)) : q \in Orders(DOMAIN d.consultants) }

\* Faulty variant: the join is not filtered by the skill id.
JoinRows_AnySkill(d, s) == { a \in d.cs : a[1] \in DOMAIN d.consultants }
\* SELECT c.id, c.name, c.email FROM consultants c JOIN consultant_skills cs
\* ON c.id = cs.consultant_id WHERE cs.skill_id = $1: one row per
\* association row of the skill.
JoinRows(d, s) == { a \in d.cs : a[2] = s /\ a[1] \in DOMAIN d.consultants }
GetConsultantsBySkill_Join(d, r) ==
    { Out(d, Collected(d, r, [ i \in DOMAIN q |-> q[i][1] ])) : q \in Orders(JoinRows(d, r.id)) }

\* The loop body: SELECT skill_id FROM consultant_skills WHERE
\* consultant_id = $1 for the next consultant, which gets the ids `sk`.
Resolved(r, sk) ==
    LET i == r.n + 1
        r1 == [r EXCEPT !.list[i].skills = sk, !.n = i]
    IN  IF i = Len(r.list) THEN Return(r1) ELSE r1
ResolveSkills(d, r) ==
    { Out(d, Resolved(r, SkillsOf(d.cs, r.list[r.n + 1].id))) }
\* The same with skillRows.Next() stopping early on an error of the
\* iteration, which the loop takes for the end of the rows.
ResolveSkillsCut(d, r) ==
    { Out(d, Resolved([r EXCEPT !.trunc = TRUE], sk)) :
        sk \in (SUBSET SkillsOf(d.cs, r.list[r.n + 1].id)) \ {SkillsOf(d.cs, r.list[r.n + 1].id)} }

\* -------------------------------------- CreateConsultant, UpdateConsultant
\* Faulty variant: the insert runs on the pool (db.db) and not on the transaction.
CreateConsultant_Insert_NoTx(d, r) ==
    LET d1 == [d EXCEPT !.nextC = @ + 1]
        r1 == [Begin(r) EXCEPT !.newid = d.nextC]
    IN  IF r.email \in EmailsBut(d, 0)
        THEN { Out(TxRollback(d1, r), ReturnErr(r1, "constraint")) }
        ELSE { Out([d1 EXCEPT !.consultants =
                        Put(@, d.nextC, [name |-> r.name, email |-> r.email])],
                   [r1 EXCEPT !.pc = IF Len(r.skills) = 0 THEN "cc_commit" ELSE "skill"]) }
\* Faulty variant: the id is one more than the greatest id in the table.
CreateConsultant_Insert_MaxPlusOne(d, r) ==
    LET d1 == [d EXCEPT !.nextC = @ + 1]
        top == CHOOSE m \in (DOMAIN d.consultants) \cup {0} :
                   \A c \in DOMAIN d.consultants : c <= m
        r1 == [Begin(r) EXCEPT !.newid = top + 1]
    IN  IF r.email \in EmailsBut(d, 0)
        THEN { Out(TxRollback(d1, r), ReturnErr(r1, "constraint")) }
        ELSE { Out(d1, [r1 EXCEPT !.pc = IF Len(r.skills) = 0 THEN "cc_commit" ELSE "skill"]) }
\* BeginTx; INSERT INTO consultants (name, email) VALUES ($1, $2) RETURNING id
\* The sequence advances whether or not the insert succeeds or commits.
CreateConsultant_Insert(d, r) ==
    LET d1 == [d EXCEPT !.nextC = @ + 1]
        r1 == [Begin(r) EXCEPT !.newid = d.nextC]
    IN  IF r.email \in EmailsBut(d, 0)
        THEN { Out(TxRollback(d1, r), ReturnErr(r1, "constraint")) }
        ELSE { Out(d1, [r1 EXCEPT !.pc = IF Len(r.skills) = 0 THEN "cc_commit" ELSE "skill"]) }

\* Faulty variant: consultant_skills has no primary key.
InsertSkill_NoPrimaryKey(d, r, commitpc) ==
    LET s == r.skills[r.n + 1]
        parent == IF r.kind = "CreateConsultant" THEN r.newid # 0 ELSE r.locked
    IN  IF ~parent \/ s \notin DOMAIN d.skills
        THEN { Out(TxRollback(d, r), ReturnErr(r, "constraint")) }
        ELSE { Out(d, [r EXCEPT !.ins = @ \cup {s}, !.n = @ + 1,
                                !.pc = IF r.n + 1 = Len(r.skills) THEN commitpc ELSE @]) }
\* Faulty variant: consultant_skills has no foreign keys.
InsertSkill_NoForeignKey(d, r, commitpc) ==
    LET c == TxTarget(r)
        s == r.skills[r.n + 1]
        dup == s \in r.ins \/ (<<c, s>> \in d.cs /\ s \notin r.del)
    IN  IF dup
        THEN { Out(TxRollback(d, r), ReturnErr(r, "constraint")) }
        ELSE { Out(d, [r EXCEPT !.ins = @ \cup {s}, !.n = @ + 1,
                                !.pc = IF r.n + 1 = Len(r.skills) THEN commitpc ELSE @]) }
\* INSERT INTO consultant_skills (consultant_id, skill_id) VALUES ($1, $2)
\* for the next skill id of the list.  The row is refused when its
\* consultant or skill does not exist (foreign keys) or when the
\* transaction sees the same row already (primary key).
InsertSkill(d, r, commitpc) ==
    LET c == TxTarget(r)
        s == r.skills[r.n + 1]
        parent == IF r.kind = "CreateConsultant" THEN r.newid # 0 ELSE r.locked
        dup == s \in r.ins \/ (<<c, s>> \in d.cs /\ s \notin r.del)
    IN  IF ~parent \/ s \notin DOMAIN d.skills \/ dup
        THEN { Out(TxRollback(d, r), ReturnErr(r, "constraint")) }
        ELSE { Out(d, [r EXCEPT !.ins = @ \cup {s}, !.n = @ + 1,
                                !.pc = IF r.n + 1 = Len(r.skills) THEN commitpc ELSE @]) }
CreateConsultant_InsertSkill(d, r) == InsertSkill(d, r, "cc_commit")
UpdateConsultant_InsertSkill(d, r) == InsertSkill(d, r, "uc_commit")

\* tx.Commit(); return consultant, nil
Committed(d, r) ==
    { Out(TxCommit(d, r),
          Return(Commit([r EXCEPT !.list =
                            << ConsultantVal(TxTarget(r), r, Range(r.skills)) >>]))) }
CreateConsultant_Commit(d, r) == Committed(d, r)
UpdateConsultant_Commit(d, r) == Committed(d, r)

\* BeginTx; SELECT EXISTS(SELECT 1 FROM consultants WHERE id = $1)
UpdateConsultant_Exists(d, r) ==
    IF r.id \in DOMAIN d.consultants
    THEN { Out(d, [Begin(r) EXCEPT !.pc = "uc_update"]) }
    ELSE { Out(TxRollback(d, r), ReturnErr(Begin(r), "notfound")) }

\* Faulty variant: the update runs on the pool (db.db) and not on the transaction.
UpdateConsultant_Update_NoTx(d, r) ==
    IF r.id \notin DOMAIN d.consultants
    THEN { Out(d, [r EXCEPT !.pc = "uc_delete"]) }
    ELSE IF r.email \in EmailsBut(d, r.id)
    THEN { Out(TxRollback(d, r), ReturnErr(r, "constraint")) }
    ELSE { Out([d EXCEPT !.consultants[r.id] = [name |-> r.name, email |-> r.email]],
               [r EXCEPT !.locked = TRUE, !.pc = "uc_delete"]) }
\* UPDATE consultants SET name = $1, email = $2 WHERE id = $3
\* No row (deleted since the check) is no error; a row is locked.
UpdateConsultant_Update(d, r) ==
    IF r.id \notin DOMAIN d.consultants
    THEN { Out(d, [r EXCEPT !.pc = "uc_delete"]) }
    ELSE IF r.email \in EmailsBut(d, r.id)
    THEN { Out(TxRollback(d, r), ReturnErr(r, "constraint")) }
    ELSE { Out(d, [r EXCEPT !.locked = TRUE, !.pc = "uc_delete"]) }

\* Faulty variant: the old association rows are not deleted.
UpdateConsultant_DeleteSkills_Skipped(d, r) ==
    { Out(d, [r EXCEPT !.n = 0, !.pc = IF Len(r.skills) = 0 THEN "uc_commit" ELSE "skill"]) }
\* DELETE FROM consultant_skills WHERE consultant_id = $1
UpdateConsultant_DeleteSkills(d, r) ==
    { Out(d, [r EXCEPT !.del = SkillsOf(d.cs, r.id), !.n = 0,
                       !.pc = IF Len(r.skills) = 0 THEN "uc_commit" ELSE "skill"]) }

\* -------------------------------------------------------- DeleteConsultant
\* Faulty variant: RowsAffected() is not looked at.
DeleteConsultant_Delete_NoCheck(d, r) ==
    { Out([d EXCEPT !.consultants = Drop(@, r.id),
                    !.cs = { a \in @ : a[1] # r.id }], Return(r)) }
\* Faulty variant: the association rows do not go with the consultant.
DeleteConsultant_Delete_NoCascade(d, r) ==
    IF r.id \notin DOMAIN d.consultants
    THEN { Out(d, ReturnErr(r, "notfound")) }
    ELSE { Out([d EXCEPT !.consultants = Drop(@, r.id)], Return(r)) }
\* DELETE FROM consultants WHERE id = $1 (ON DELETE CASCADE removes the
\* consultant's association rows); RowsAffected() = 0 is not found.
DeleteConsultant_Delete(d, r) ==
    IF r.id \notin DOMAIN d.consultants
    THEN { Out(d, ReturnErr(r, "notfound")) }
    ELSE { Out([d EXCEPT !.consultants = Drop(@, r.id),
                         !.cs = { a \in @ : a[1] # r.id }], Return(r)) }

\* ------------------------------------------------------------------ skills
\* Faulty variant: a lookup that finds no row inserts one (get-or-create).
GetSkill_OrCreate(d, r) ==
    LET row == [name |-> "", description |-> ""]
    IN  IF r.id \in DOMAIN d.skills
        THEN { Out(d, Return([r EXCEPT !.slist = << SkillVal(r.id, d.skills[r.id]) >>])) }
        ELSE { Out([d EXCEPT !.skills = Put(@, r.id, row)],
                   Return([r EXCEPT !.slist = << SkillVal(r.id, row) >>])) }
\* SELECT id, name, description FROM skills WHERE id = $1
GetSkill(d, r) ==
    IF r.id \in DOMAIN d.skills
    THEN { Out(d, Return([r EXCEPT !.slist = << SkillVal(r.id, d.skills[r.id]) >>])) }
    ELSE { Out(d, ReturnErr(r, "notfound")) }

\* SELECT id, name, description FROM skills
GetAllSkills(d, r) ==
    { Out(d, Return([r EXCEPT !.slist = [ i \in DOMAIN q |-> SkillVal(q[i], d.skills[q[i]]) ]])) :
        q \in Orders(DOMAIN d.skills) }

\* INSERT INTO skills (name, description) VALUES ($1, $2) RETURNING id
CreateSkill(d, r) ==
    LET d1 == [d EXCEPT !.nextS = @ + 1]
        row == [name |-> r.name, description |-> r.description]
    IN  IF r.name \in NamesBut(d, 0)
        THEN { Out(d1, ReturnErr(r, "constraint")) }
        ELSE { Out([d1 EXCEPT !.skills = Put(@, d.nextS, row)],
                   Return([r EXCEPT !.slist = << SkillVal(d.nextS, row) >>])) }

\* Faulty variant: the skills table has no unique index on name.
UpdateSkill_NoUnique(d, r) ==
    LET row == [name |-> r.name, description |-> r.description]
    IN  IF r.id \notin DOMAIN d.skills
        THEN { Out(d, ReturnErr(r, "notfound")) }
        ELSE { Out([d EXCEPT !.skills = Put(@, r.id, row)],
                   Return([r EXCEPT !.slist = << SkillVal(r.id, row) >>])) }
\* UPDATE skills SET name = $1, description = $2 WHERE id = $3
UpdateSkill(d, r) ==
    LET row == [name |-> r.name, description |-> r.description]
    IN  IF r.id \notin DOMAIN d.skills
        THEN { Out(d, ReturnErr(r, "notfound")) }
        ELSE IF r.name \in NamesBut(d, r.id)
        THEN { Out(d, ReturnErr(r, "constraint")) }
        ELSE { Out([d EXCEPT !.skills = Put(@, r.id, row)],
                   Return([r EXCEPT !.slist = << SkillVal(r.id, row) >>])) }

\* Faulty variant: the in-use check is left out.
DeleteSkill_InUse_Skipped(d, r) == { Out(d, [r EXCEPT !.pc = "ds_delete"]) }
\* SELECT EXISTS(SELECT 1 FROM consultant_skills WHERE skill_id = $1)
DeleteSkill_InUse(d, r) ==
    IF \E a \in d.cs : a[2] = r.id
    THEN { Out(d, ReturnErr(r, "inuse")) }
    ELSE { Out(d, [r EXCEPT !.pc = "ds_delete"]) }

\* Faulty variant: RowsAffected() is not looked at.
DeleteSkill_Delete_NoCheck(d, r) ==
    { Out([d EXCEPT !.skills = Drop(@, r.id),
                    !.cs = { x \in @ : x[2] # r.id }], Return(r)) }
\* DELETE FROM skills WHERE id = $1 (ON DELETE CASCADE removes the
\* association rows of the skill); RowsAffected() = 0 is not found.
DeleteSkill_Delete(d, r) ==
    IF r.id \notin DOMAIN d.skills
    THEN { Out(d, ReturnErr(r, "notfound")) }
    ELSE { Out([d EXCEPT !.skills = Drop(@, r.id),
                         !.cs = { a \in @ : a[2] # r.id }], Return(r)) }

\* --------------------------------------------------------- one statement
\* The statement request r is at waits for a lock another open transaction
\* holds (oth: the other requests).
Waits(d, oth, r) ==
    CASE r.pc = "cc_insert" -> EmailWait(d, oth, r.email)
      [] r.pc = "uc_update" ->
            /\ r.id \in DOMAIN d.consultants
            /\ \/ RowWait(oth, r.id)
               \/ d.consultants[r.id].email # r.email /\ EmailWait(d, oth, r.email)
      [] r.pc = "dc_delete" -> RowWait(oth, r.id)
      [] r.pc = "ds_delete" -> SkillWait(oth, r.id)
      [] r.pc = "sk_update" ->
            /\ r.id \in DOMAIN d.skills
            /\ d.skills[r.id].name # r.name
            /\ \E t \in oth : Running(t) /\ r.id \in t.ins
      [] OTHER -> FALSE

\* The methods that run in a transaction.
TxKinds == {"GetConsultant", "CreateConsultant", "UpdateConsultant"}

\* Any statement (BeginTx, a query, Commit) may return an error instead: the
\* 3-second context expired or the connection failed.  Nothing is written.
\* At the first statement of a transaction either BeginTx failed (there is
\* no transaction) or the query after it.
Fault(d, r) ==
    { Out(TxRollback(d, r), ReturnErr(r, "fault")) }
    \cup IF r.kind \in TxKinds /\ r.tx = "none"
         THEN { Out(TxRollback(d, r), ReturnErr(Begin(r), "fault")) }
         ELSE {}

\* The calls a client can make: the request at its first statement, its
\* context made (ctx, cancel := context.WithTimeout(...); defer cancel()).
Args(kind, pc, id, name, email, description, skills) ==
    [Idle EXCEPT !.kind = kind, !.pc = pc, !.id = id, !.name = name,
                 !.email = email, !.description = description, !.skills = skills,
                 !.ctx = "live"]
Calls ==
    { Args("GetConsultant", "gc_row", c, "", "", "", << >>) : c \in ConsultantIds }
    \cup { Args("GetAllConsultants", "ga_rows", 0, "", "", "", << >>) }
    \cup { Args("CreateConsultant", "cc_insert", 0, b.name, b.email, "", l) :
              b \in People, l \in SkillLists }
    \cup { Args("UpdateConsultant", "uc_exists", x[1], x[2].name, x[2].email, "", x[3]) :
              x \in ConsultantIds \X People \X SkillLists }
    \cup { Args("DeleteConsultant", "dc_delete", c, "", "", "", << >>) : c \in ConsultantIds }
    \cup { Args("GetConsultantsBySkill", "gs_join", s, "", "", "", << >>) : s \in SkillIds }
    \cup { Args("GetSkill", "sk_get", s, "", "", "", << >>) : s \in SkillIds }
    \cup { Args("GetAllSkills", "sk_all", 0, "", "", "", << >>) }
    \cup { Args("CreateSkill", "sk_insert", 0, b.name, "", b.description, << >>) :
              b \in SkillBodies }
    \cup { Args("UpdateSkill", "sk_update", x[1], x[2].name, "", x[2].description, << >>) :
              x \in SkillIds \X SkillBodies }
    \cup { Args("DeleteSkill", "ds_inuse", s, "", "", "", << >>) : s \in SkillIds }

\* ------------------------------------------------------- history variables
WriteKinds ==
    {"CreateConsultant", "UpdateConsultant", "DeleteConsultant",
     "CreateSkill", "UpdateSkill", "DeleteSkill"}

\* The tables after the call that request r returned success from, had the
\* whole call happened at once.
Effect(t, r) ==
    CASE r.kind = "CreateConsultant" ->
            [t EXCEPT !.consultants = Put(@, r.list[1].id, [name |-> r.name, email |-> r.email]),
                      !.cs = @ \cup { <<r.list[1].id, s>> : s \in Range(r.skills) }]
      [] r.kind = "UpdateConsultant" ->
            IF r.id \notin DOMAIN t.consultants THEN t
            ELSE [t EXCEPT !.consultants = Put(@, r.id, [name |-> r.name, email |-> r.email]),
                           !.cs = { a \in @ : a[1] # r.id }
                                  \cup { <<r.id, s>> : s \in Range(r.skills) }]
      [] r.kind = "DeleteConsultant" ->
            [t EXCEPT !.consultants = Drop(@, r.id), !.cs = { a \in @ : a[1] # r.id }]
      [] r.kind = "CreateSkill" ->
            [t EXCEPT !.skills = Put(@, r.slist[1].id,
                                     [name |-> r.name, description |-> r.description])]
      [] r.kind = "UpdateSkill" ->
            [t EXCEPT !.skills = Put(@, r.id, [name |-> r.name, description |-> r.description])]
      [] r.kind = "DeleteSkill" ->
            [t EXCEPT !.skills = Drop(@, r.id), !.cs = { a \in @ : a[2] # r.id }]
      [] OTHER -> t

Succeeded(r) == r.pc = "done" /\ r.err = "nil"

\* The skill-id sets supplied by the successful consultant writes.
Supply(f, r) ==
    CASE r.kind \in {"CreateConsultant", "UpdateConsultant"} ->
            [f EXCEPT ![r.list[1].id] = Range(r.skills)]
      [] r.kind = "DeleteConsultant" -> [f EXCEPT ![r.id] = {}]
      [] OTHER -> f

\* ----------------------------------------------------------------- actions
\* The outcomes of the statement request r is at.
Stmt(d, r) ==
    CASE r.pc = "gc_row" -> GetConsultant_Row(d, r)
      [] r.pc = "gc_skills" -> GetConsultant_Skills(d, r)
      [] r.pc = "ga_rows" -> GetAllConsultants_Rows(d, r)
      [] r.pc = "gs_join" -> GetConsultantsBySkill_Join(d, r)
      [] r.pc = "skills" -> ResolveSkills(d, r)
      [] r.pc = "cc_insert" -> CreateConsultant_Insert(d, r)
      [] r.pc = "skill" /\ r.kind = "CreateConsultant" -> CreateConsultant_InsertSkill(d, r)
      [] r.pc = "cc_commit" -> CreateConsultant_Commit(d, r)
      [] r.pc = "uc_exists" -> UpdateConsultant_Exists(d, r)
      [] r.pc = "uc_update" -> UpdateConsultant_Update(d, r)
      [] r.pc = "uc_delete" -> UpdateConsultant_DeleteSkills(d, r)
      [] r.pc = "skill" /\ r.kind = "UpdateConsultant" -> UpdateConsultant_InsertSkill(d, r)
      [] r.pc = "uc_commit" -> UpdateConsultant_Commit(d, r)
      [] r.pc = "dc_delete" -> DeleteConsultant_Delete(d, r)
      [] r.pc = "sk_get" -> GetSkill(d, r)
      [] r.pc = "sk_all" -> GetAllSkills(d, r)
      [] r.pc = "sk_insert" -> CreateSkill(d, r)
      [] r.pc = "sk_update" -> UpdateSkill(d, r)
      [] r.pc = "ds_inuse" -> DeleteSkill_InUse(d, r)
      [] r.pc = "ds_delete" -> DeleteSkill_Delete(d, r)
      [] OTHER -> {}

\* Request p takes outcome o of its statement.
Install(p, o) ==
    /\ db' = o.d
    /\ req' = [req EXCEPT ![p] = o.r]
    /\ IF Succeeded(o.r) /\ o.r.kind \in WriteKinds
       THEN ref' = Effect(ref, o.r) /\ supplied' = Supply(supplied, o.r)
       ELSE UNCHANGED <<ref, supplied>>
    /\ UNCHANGED <<process, mem>>

Others(p) == { req[q] : q \in Procs \ {p} }
At(p, kind, pc) == req[p].kind = kind /\ req[p].pc = pc
\* Request p runs its statement, once no lock makes it wait.
Exec(p) ==
    /\ ~Waits(db, Others(p), req[p])
    /\ \E o \in Stmt(db, req[p]) : Install(p, o)

Step_GetConsultant_Row(p) == At(p, "GetConsultant", "gc_row") /\ Exec(p)
Step_GetConsultant_Skills(p) == At(p, "GetConsultant", "gc_skills") /\ Exec(p)
Step_GetAllConsultants_Rows(p) == At(p, "GetAllConsultants", "ga_rows") /\ Exec(p)
Step_GetAllConsultants_Skills(p) == At(p, "GetAllConsultants", "skills") /\ Exec(p)
Step_GetConsultantsBySkill_Join(p) == At(p, "GetConsultantsBySkill", "gs_join") /\ Exec(p)
Step_GetConsultantsBySkill_Skills(p) == At(p, "GetConsultantsBySkill", "skills") /\ Exec(p)
Step_CreateConsultant_Insert(p) == At(p, "CreateConsultant", "cc_insert") /\ Exec(p)
Step_CreateConsultant_InsertSkill(p) == At(p, "CreateConsultant", "skill") /\ Exec(p)
Step_CreateConsultant_Commit(p) == At(p, "CreateConsultant", "cc_commit") /\ Exec(p)
Step_UpdateConsultant_Exists(p) == At(p, "UpdateConsultant", "uc_exists") /\ Exec(p)
Step_UpdateConsultant_Update(p) == At(p, "UpdateConsultant", "uc_update") /\ Exec(p)
Step_UpdateConsultant_DeleteSkills(p) == At(p, "UpdateConsultant", "uc_delete") /\ Exec(p)
Step_UpdateConsultant_InsertSkill(p) == At(p, "UpdateConsultant", "skill") /\ Exec(p)
Step_UpdateConsultant_Commit(p) == At(p, "UpdateConsultant", "uc_commit") /\ Exec(p)
Step_DeleteConsultant(p) == At(p, "DeleteConsultant", "dc_delete") /\ Exec(p)
Step_GetSkill(p) == At(p, "GetSkill", "sk_get") /\ Exec(p)
Step_GetAllSkills(p) == At(p, "GetAllSkills", "sk_all") /\ Exec(p)
Step_CreateSkill(p) == At(p, "CreateSkill", "sk_insert") /\ Exec(p)
Step_UpdateSkill(p) == At(p, "UpdateSkill", "sk_update") /\ Exec(p)
Step_DeleteSkill_InUse(p) == At(p, "DeleteSkill", "ds_inuse") /\ Exec(p)
Step_DeleteSkill_Delete(p) == At(p, "DeleteSkill", "ds_delete") /\ Exec(p)
\* An association read of GetAllConsultants / GetConsultantsBySkill stops early.
Step_ResolveSkillsCut(p) ==
    req[p].pc = "skills" /\ \E o \in ResolveSkillsCut(db, req[p]) : Install(p, o)
\* A statement of request p returns an error.
Step_Fault(p) ==
    Running(req[p]) /\ \E o \in Fault(db, req[p]) : Install(p, o)

Step(p) ==
    \/ Step_GetConsultant_Row(p)
    \/ Step_GetConsultant_Skills(p)
    \/ Step_GetAllConsultants_Rows(p)
    \/ Step_GetAllConsultants_Skills(p)
    \/ Step_GetConsultantsBySkill_Join(p)
    \/ Step_GetConsultantsBySkill_Skills(p)
    \/ Step_ResolveSkillsCut(p)
    \/ Step_CreateConsultant_Insert(p)
    \/ Step_CreateConsultant_InsertSkill(p)
    \/ Step_CreateConsultant_Commit(p)
    \/ Step_UpdateConsultant_Exists(p)
    \/ Step_UpdateConsultant_Update(p)
    \/ Step_UpdateConsultant_DeleteSkills(p)
    \/ Step_UpdateConsultant_InsertSkill(p)
    \/ Step_UpdateConsultant_Commit(p)
    \/ Step_DeleteConsultant(p)
    \/ Step_GetSkill(p)
    \/ Step_GetAllSkills(p)
    \/ Step_CreateSkill(p)
    \/ Step_UpdateSkill(p)
    \/ Step_DeleteSkill_InUse(p)
    \/ Step_DeleteSkill_Delete(p)
    \/ Step_Fault(p)

\* The sequences never pass the bounds: a create is not called past them.
Room(p, r) ==
    /\ r.kind = "CreateConsultant" =>
          db.nextC + Cardinality({ q \in Procs \ {p} : At(q, "CreateConsultant", "cc_insert") })
              <= MaxConsultants
    /\ r.kind = "CreateSkill" =>
          db.nextS + Cardinality({ q \in Procs \ {p} : At(q, "CreateSkill", "sk_insert") })
              <= MaxSkills

\* The handler has written its response: the request is over.
RequestEnds(p) ==
    /\ req[p].pc = "done"
    /\ req' = [req EXCEPT ![p] = Idle]
    /\ UNCHANGED <<db, supplied, ref, process, mem>>

\* A sequential client: one call at a time, each begun after the one before
\* returned; it remembers the tables it called on.
Client == "r1"
CallSeq ==
    /\ req[Client].pc = "idle"
    /\ \E r \in Calls :
          /\ Room(Client, r)
          /\ req' = [req EXCEPT ![Client] =
                       [r EXCEPT !.pre = Tables(db), !.prev = req[Client].prev,
                                 !.seen = req[Client].seen, !.step = req[Client].step]]
    /\ UNCHANGED <<db, supplied, ref, process, mem>>

\* The sequential client keeps in mind the last write that succeeded (a
\* consultant write: its arguments, the id it was about and the skills that
\* consultant had before it); reads and failed calls leave the store as that
\* write left it.
Remembered(r) ==
    IF ~(Succeeded(r) /\ r.kind \in WriteKinds) THEN r.prev
    ELSE IF r.kind \in {"CreateConsultant", "UpdateConsultant", "DeleteConsultant"}
    THEN [kind |-> r.kind, id |-> TxTarget(r), name |-> r.name, email |-> r.email,
          skills |-> r.skills, had |-> SkillsOf(r.pre.cs, TxTarget(r))]
    ELSE NoPrev
RequestEndsRemember(p) ==
    /\ req[p].pc = "done"
    /\ req' = [req EXCEPT ![p] = [Idle EXCEPT !.prev = Remembered(req[p])]]
    /\ UNCHANGED <<db, supplied, ref, process, mem>>

\* The sequential client keeps the ids its successful creates returned.
Seen(r) ==
    IF ~Succeeded(r) THEN r.seen
    ELSE IF r.kind = "CreateConsultant"
    THEN [r.seen EXCEPT !.consultants = @ \cup {r.list[1].id}]
    ELSE IF r.kind = "CreateSkill"
    THEN [r.seen EXCEPT !.skills = @ \cup {r.slist[1].id}]
    ELSE r.seen
RequestEndsSeen(p) ==
    /\ req[p].pc = "done"
    /\ req' = [req EXCEPT ![p] = [Idle EXCEPT !.seen = Seen(req[p])]]
    /\ UNCHANGED <<db, supplied, ref, process, mem>>

\* A sequential client whose update bodies may carry an ID field.
CallsWithId ==
    Calls \cup { [r EXCEPT !.cid = c] :
                   r \in { x \in Calls : x.kind = "UpdateConsultant" }, c \in ConsultantIds }
CallBody ==
    /\ req[Client].pc = "idle"
    /\ \E r \in CallsWithId :
          Room(Client, r) /\ req' = [req EXCEPT ![Client] = [r EXCEPT !.pre = Tables(db)]]
    /\ UNCHANGED <<db, supplied, ref, process, mem>>

\* No data.Store is made (the service runs on the PostgreSQL repository).
NoStore == [made |-> FALSE]

\* The process before main() runs (pc: where main is; pool: the sql.DB of
\* New; pinged, schema: how PingContext and initDatabase ended; handle: New
\* returned a *PostgresDB; routes: the routes are registered; listening: the
\* HTTP server accepts requests; inflight: a request was in flight when the
\* interrupt came) and the process that serves.
Boot ==
    [pc |-> "new", pool |-> "none", pinged |-> "no", schema |-> "no",
     handle |-> FALSE, routes |-> FALSE, listening |-> FALSE, inflight |-> FALSE]
Serving ==
    [pc |-> "serving", pool |-> "open", pinged |-> "ok", schema |-> "ok",
     handle |-> TRUE, routes |-> TRUE, listening |-> TRUE, inflight |-> FALSE]

Init ==
    /\ db = EmptyDB
    /\ req = [p \in Procs |-> Idle]
    /\ supplied = [c \in ConsultantIds |-> {}]
    /\ ref = Tables(EmptyDB)
    /\ process = Serving
    /\ mem = NoStore

Next == CallSeq \/ Step(Client) \/ RequestEnds(Client)

NextBody == CallBody \/ Step(Client) \/ RequestEnds(Client)

SpecBody == Init /\ [][NextBody]_vars

Spec == Init /\ [][Next]_vars

\* The same client, remembering its last successful write.
NextHist == CallSeq \/ Step(Client) \/ RequestEndsRemember(Client)

SpecHist == Init /\ [][NextHist]_vars

\* The calls of the documented scenario, made through the test client, in order.
Scenario ==
    << Args("CreateSkill", "sk_insert", 0, "Go", "", "Backend", << >>),
       Args("CreateSkill", "sk_insert", 0, "SQL", "", "", << >>),
       Args("CreateConsultant", "cc_insert", 0, "Ann", "ann@x.com", "", <<1, 2>>),
       Args("GetConsultantsBySkill", "gs_join", 1, "", "", "", << >>),
       Args("UpdateConsultant", "uc_exists", 1, "Ann", "ann@x.com", "", <<2>>),
       Args("GetConsultantsBySkill", "gs_join", 1, "", "", "", << >>),
       Args("DeleteSkill", "ds_inuse", 1, "", "", "", << >>) >>
\* Call r is the next call of the scenario.
OnScenario(r) ==
    /\ r.step >= 0 /\ r.step < Len(Scenario)
    /\ LET c == Scenario[r.step + 1]
       IN  /\ r.kind = c.kind /\ r.id = c.id /\ r.name = c.name /\ r.email = c.email
           /\ r.description = c.description /\ r.skills = c.skills
\* The client follows how far its run is the scenario.
RequestEndsScenario(p) ==
    /\ req[p].pc = "done"
    /\ req' = [req EXCEPT ![p] =
                 [Idle EXCEPT !.step = IF OnScenario(req[p]) /\ Succeeded(req[p])
                                       THEN req[p].step + 1 ELSE -1]]
    /\ UNCHANGED <<db, supplied, ref, process, mem>>

NextScenario == CallSeq \/ Step(Client) \/ RequestEndsScenario(Client)

SpecScenario == Init /\ [][NextScenario]_vars

\* The same client, remembering the ids it was given.
NextSeen == CallSeq \/ Step(Client) \/ RequestEndsSeen(Client)

SpecSeen == Init /\ [][NextSeen]_vars

\* The request-parallel server: every request runs its call on its own
\* goroutine, all on the one pool.
Call(p) ==
    /\ req[p].pc = "idle"
    /\ \E r \in Calls : Room(p, r) /\ req' = [req EXCEPT ![p] = r]
    /\ UNCHANGED <<db, supplied, ref, process, mem>>

\* Stores the concurrent requests start on: the fresh database and stores
\* that sequential runs of Spec reach, with the history variables such a run
\* leaves.
Ann == [name |-> "Ann", email |-> "ann@x.com"]
Bob == [name |-> "Bob", email |-> "bob@x.com"]
Go == [name |-> "Go", description |-> "Backend"]
SQL == [name |-> "SQL", description |-> ""]
Seeds ==
    { EmptyDB,
      [consultants |-> (1 :> Ann), skills |-> (1 :> Go),
       cs |-> {<<1, 1>>}, nextC |-> 2, nextS |-> 2,
       schema |-> AllTables],
      [consultants |-> (1 :> Ann), skills |-> (1 :> Go) @@ (2 :> SQL),
       cs |-> {}, nextC |-> 2, nextS |-> 3,
       schema |-> AllTables],
      [consultants |-> (1 :> Ann), skills |-> (1 :> Go) @@ (2 :> SQL),
       cs |-> {<<1, 1>>, <<1, 2>>}, nextC |-> 2, nextS |-> 3,
       schema |-> AllTables],
      [consultants |-> (1 :> Ann) @@ (2 :> Bob), skills |-> (1 :> Go) @@ (2 :> SQL),
       cs |-> {<<1, 1>>, <<2, 2>>}, nextC |-> 3, nextS |-> 3,
       schema |-> AllTables] }

InitConc ==
    /\ db \in Seeds
    /\ req = [p \in Procs |-> Idle]
    /\ supplied = [c \in ConsultantIds |-> SkillsOf(db.cs, c)]
    /\ ref = Tables(db)
    /\ process = Serving
    /\ mem = NoStore

\* Two requests, one call each, their statements interleaved in every way.
NextConc == \E p \in Procs : Call(p) \/ Step(p)

SpecConc == InitConc /\ [][NextConc]_vars

\* The same server, started on the stores with one consultant and one
\* skill, with a store that answers every statement that waits for no lock,
\* and the 3-second context of every call, which ends a statement that is
\* not answered: a request that can take a step takes one.
InitLive == InitConc /\ db.nextC = 2 /\ db.nextS = 2
SpecLive == InitLive /\ [][NextConc]_vars /\ \A p \in Procs : WF_vars(Step(p))

\* The same server, every request keeping in `pre` the store (tables and
\* sequences) the requests started on.
InitSnap ==
    /\ db \in Seeds
    /\ req = [p \in Procs |-> [Idle EXCEPT !.pre = db]]
    /\ supplied = [c \in ConsultantIds |-> SkillsOf(db.cs, c)]
    /\ ref = Tables(db)
    /\ process = Serving
    /\ mem = NoStore

CallSnap(p) ==
    /\ req[p].pc = "idle"
    /\ \E r \in Calls :
          Room(p, r) /\ req' = [req EXCEPT ![p] = [r EXCEPT !.pre = req[p].pre]]
    /\ UNCHANGED <<db, supplied, ref, process, mem>>

NextSnap == \E p \in Procs : CallSnap(p) \/ Step(p)

SpecSnap == InitSnap /\ [][NextSnap]_vars

\* ----------------------------------------------------------- the handlers
ConsultantKinds ==
    {"GetConsultant", "GetAllConsultants", "CreateConsultant", "UpdateConsultant",
     "DeleteConsultant", "GetConsultantsBySkill"}
BodyKinds == {"CreateConsultant", "UpdateConsultant", "CreateSkill", "UpdateSkill"}

\* The HTTP requests a client can send: those of Calls and, for the routes
\* with a body, a body that cannot be decoded, one with an empty name and
\* one with an empty email.
HttpRequests ==
    Calls
    \cup { [r EXCEPT !.json = FALSE, !.name = "", !.email = "", !.description = "",
                     !.skills = << >>] : r \in { x \in Calls : x.kind \in BodyKinds } }
    \cup { [r EXCEPT !.name = ""] : r \in { x \in Calls : x.kind \in BodyKinds } }
    \cup { [r EXCEPT !.email = ""] :
              r \in { x \in Calls : x.kind \in {"CreateConsultant", "UpdateConsultant"} } }

\* http.Error(w, ..., http.StatusBadRequest); return
BadRequest(h) ==
    [h EXCEPT !.pc = "done", !.err = "invalid", !.ctx = "none", !.status = 400]

\* Faulty variant: the required fields are not validated.
Handler_NoValidation(h) == IF ~h.json THEN BadRequest(h) ELSE h
\* Create / Update of both handlers before the repository call: Decode the
\* body, validate the required fields.  The other handlers call at once.
Handler(h) ==
    IF h.kind \notin BodyKinds THEN h
    ELSE IF ~h.json THEN BadRequest(h)
    ELSE IF h.kind \in ConsultantKinds /\ (h.name = "" \/ h.email = "") THEN BadRequest(h)
    ELSE IF h.kind \notin ConsultantKinds /\ h.name = "" THEN BadRequest(h)
    ELSE h

\* fmt.Errorf("consultant with id %d not found", id) and the like, as the
\* pieces of the text.
NotFoundText(what, id) == << what, " with id ", id, " not found" >>
InUseText(id) ==
    << "cannot delete skill with id ", id, " because it is assigned to consultants" >>

\* Faulty variant: the repository wraps its not-found error.
ErrText_Wrapped(r) ==
    CASE r.err = "notfound" -> << "repository: " >> \o NotFoundText("skill", r.id)
      [] r.err = "inuse" -> InUseText(r.id)
      [] OTHER -> << r.err >>
\* err.Error() of the error a repository method returned.
ErrText(r) ==
    CASE r.err = "notfound" ->
            NotFoundText(IF r.kind \in ConsultantKinds THEN "consultant" ELSE "skill", r.id)
      [] r.err = "inuse" -> InUseText(r.id)
      [] OTHER -> << r.err >>

\* The status code the handler of a returned repository call writes.
Status(r) ==
    CASE r.kind \in {"GetAllConsultants", "GetConsultantsBySkill", "GetAllSkills"} ->
            IF r.err # "nil" THEN 500 ELSE 200
      [] r.kind \in {"CreateConsultant", "CreateSkill"} ->
            IF r.err # "nil" THEN 500 ELSE 201
      [] r.kind \in {"GetConsultant", "UpdateConsultant"} ->
            IF r.err = "nil" THEN 200
            ELSE IF ErrText(r) = NotFoundText("consultant", r.id) THEN 404 ELSE 500
      [] r.kind = "DeleteConsultant" ->
            IF r.err = "nil" THEN 204
            ELSE IF ErrText(r) = NotFoundText("consultant", r.id) THEN 404 ELSE 500
      [] r.kind \in {"GetSkill", "UpdateSkill"} ->
            IF r.err = "nil" THEN 200
            ELSE IF ErrText(r) = NotFoundText("skill", r.id) THEN 404 ELSE 500
      [] r.kind = "DeleteSkill" ->
            IF r.err = "nil" THEN 204
            ELSE IF ErrText(r) = NotFoundText("skill", r.id) THEN 404
            ELSE IF ErrText(r) = InUseText(r.id) THEN 409 ELSE 500
      [] OTHER -> 0

\* A sequential HTTP client: the handler takes the request and either
\* answers 400 or calls the repository on the store `pre`.
CallHttp ==
    /\ req[Client].pc = "idle"
    /\ \E h \in HttpRequests :
          /\ Room(Client, h)
          /\ req' = [req EXCEPT ![Client] = [Handler(h) EXCEPT !.pre = db]]
    /\ UNCHANGED <<db, supplied, ref, process, mem>>

\* The repository call returned: the handler writes the response.
Respond(p) ==
    /\ req[p].pc = "done" /\ req[p].status = 0
    /\ req' = [req EXCEPT ![p].status = Status(req[p])]
    /\ UNCHANGED <<db, supplied, ref, process, mem>>

RequestEndsHttp(p) ==
    /\ req[p].pc = "done" /\ req[p].status # 0
    /\ req' = [req EXCEPT ![p] = Idle]
    /\ UNCHANGED <<db, supplied, ref, process, mem>>

NextHttp == CallHttp \/ Step(Client) \/ Respond(Client) \/ RequestEndsHttp(Client)

SpecHttp == Init /\ [][NextHttp]_vars

\* ------------------------------------------------------ the service process
\* Faulty variant: the tables are dropped and made again.
initDatabase_Recreate(d) == EmptyDB
\* initDatabase: CREATE TABLE IF NOT EXISTS skills / consultants /
\* consultant_skills.  A table that exists is left alone, with its rows and
\* its sequence; a table that is missing is made empty, its sequence at 1.
initDatabase(d) ==
    [d EXCEPT !.schema = AllTables,
              !.skills = IF "skills" \in d.schema THEN @ ELSE NoRows,
              !.nextS = IF "skills" \in d.schema THEN @ ELSE 1,
              !.consultants = IF "consultants" \in d.schema THEN @ ELSE NoRows,
              !.nextC = IF "consultants" \in d.schema THEN @ ELSE 1,
              !.cs = IF "consultant_skills" \in d.schema THEN @ ELSE {}]

\* How sql.Open, PingContext and the Exec of initDatabase end.
Answers == [open : BOOLEAN, ping : BOOLEAN, schema : BOOLEAN]

\* Faulty variant: the error of PingContext is not looked at.
New_PingIgnored(d, m, a) ==
    IF ~a.open THEN Out(d, m)
    ELSE IF ~a.schema
    THEN Out(d, [m EXCEPT !.pool = "open", !.pinged = IF a.ping THEN "ok" ELSE "failed",
                          !.schema = "failed"])
    ELSE Out(initDatabase(d),
             [m EXCEPT !.pool = "open", !.pinged = IF a.ping THEN "ok" ELSE "failed",
                       !.schema = "ok", !.handle = TRUE])
\* New: sql.Open, PingContext (5 s), initDatabase; the first error is
\* returned with a nil handle.  Out(d, m): the store and the process after.
New(d, m, a) ==
    IF ~a.open THEN Out(d, m)
    ELSE IF ~a.ping THEN Out(d, [m EXCEPT !.pool = "open", !.pinged = "failed"])
    ELSE IF ~a.schema
    THEN Out(d, [m EXCEPT !.pool = "open", !.pinged = "ok", !.schema = "failed"])
    ELSE Out(initDatabase(d),
             [m EXCEPT !.pool = "open", !.pinged = "ok", !.schema = "ok", !.handle = TRUE])

\* Faulty variant: main goes on when New returned an error.
Opened_NoFatal(m) == [m EXCEPT !.pc = "ready"]
\* main: if err != nil { log.Fatalf(...) }; defer db.Close()
Opened(m) == [m EXCEPT !.pc = IF m.handle THEN "ready" ELSE "exit"]

\* log.Fatalf, or main returning: the process is gone, its requests with it
\* (the store rolls their open transactions back).
Exit(m) == [m EXCEPT !.pc = "exit", !.listening = FALSE]
NoRequests == [p \in Procs |-> Idle]

\* Faulty variant: Shutdown does not wait for the requests in flight.
ShutdownDone_NoWait(rq) == TRUE
\* srv.Shutdown(ctx) returns nil once no request is in flight.
ShutdownDone(rq) == \A p \in Procs : rq[p].pc = "idle"

\* db, err := database.New(dbConfig)
Main_New ==
    /\ process.pc = "new"
    /\ \E a \in Answers :
          LET o == New(db, process, a)
          IN  db' = o.d /\ process' = Opened(o.r)
    /\ UNCHANGED <<req, supplied, ref, mem>>

\* The handlers, the router and its routes.
Main_Routes ==
    /\ process.pc = "ready"
    /\ process' = [process EXCEPT !.pc = "start", !.routes = TRUE]
    /\ UNCHANGED <<db, req, supplied, ref, mem>>

\* startServerWithGracefulShutdown: go srv.ListenAndServe(), which listens
\* or sends its error, on which main calls log.Fatalf.
Main_Listen ==
    /\ process.pc = "start"
    /\ \E ok \in BOOLEAN :
          process' = IF ok THEN [process EXCEPT !.pc = "serving", !.listening = TRUE]
                     ELSE Exit(process)
    /\ UNCHANGED <<db, req, supplied, ref, mem>>

\* case err := <-serverErrors: log.Fatalf
Main_ServerError ==
    /\ process.pc = "serving"
    /\ process' = Exit(process)
    /\ req' = NoRequests
    /\ UNCHANGED <<db, supplied, ref, mem>>

\* case <-stop: srv.Shutdown(ctx) closes the listeners first.
Main_Interrupt ==
    /\ process.pc = "serving"
    /\ process' = [process EXCEPT !.pc = "shutdown", !.listening = FALSE,
                                  !.inflight = \E p \in Procs : req[p].pc # "idle"]
    /\ UNCHANGED <<db, req, supplied, ref, mem>>

\* Shutdown returned nil; startServerWithGracefulShutdown and main return.
Main_ShutdownReturns ==
    /\ process.pc = "shutdown"
    /\ ShutdownDone(req)
    /\ process' = [process EXCEPT !.pc = "stopped"]
    /\ UNCHANGED <<db, req, supplied, ref, mem>>

\* The 10 s of Shutdown are over with a request in flight: log.Fatalf.
Main_ShutdownDeadline ==
    /\ process.pc = "shutdown"
    /\ \E p \in Procs : req[p].pc # "idle"
    /\ process' = Exit(process)
    /\ req' = NoRequests
    /\ UNCHANGED <<db, supplied, ref, mem>>

\* The deferred db.Close() of main.
Main_Close ==
    /\ process.pc = "stopped"
    /\ process' = [process EXCEPT !.pc = "closed", !.pool = "closed"]
    /\ UNCHANGED <<db, req, supplied, ref, mem>>

Main_Exit ==
    /\ process.pc = "closed"
    /\ process' = Exit(process)
    /\ req' = NoRequests
    /\ UNCHANGED <<db, supplied, ref, mem>>

\* The service is started again on the same database.
Main_Restart ==
    /\ process.pc = "exit"
    /\ process' = Boot
    /\ UNCHANGED <<db, req, supplied, ref, mem>>

\* The server takes a request while it listens.
CallMain == process.listening /\ CallSeq

InitMain ==
    /\ db = Fresh
    /\ req = NoRequests
    /\ supplied = [c \in ConsultantIds |-> {}]
    /\ ref = Tables(Fresh)
    /\ process = Boot
    /\ mem = NoStore

NextMain ==
    \/ Main_New
    \/ Main_Routes
    \/ Main_Listen
    \/ Main_ServerError
    \/ Main_Interrupt
    \/ Main_ShutdownReturns
    \/ Main_ShutdownDeadline
    \/ Main_Close
    \/ Main_Exit
    \/ Main_Restart
    \/ CallMain
    \/ Step(Client)
    \/ RequestEnds(Client)

SpecMain == InitMain /\ [][NextMain]_vars

\* ============================================================= properties
\* The request of the sequential client.
Cur == req[Client]
NewRow(r) == [name |-> r.name, email |-> r.email]
Assoc(c, S) == { <<c, s>> : s \in S }

\* C1: whenever no call is running, whatever calls completed before
\* (successful, failed or timed out, one after the other or overlapping), the
\* association rows of every existing consultant are exactly the skill ids
\* supplied by the last successful CreateConsultant or UpdateConsultant of
\* that consultant: the full supplied set or none of it.
C1_AssociationsAreLastSupplied ==
    (\A p \in Procs : ~Running(req[p])) =>
        \A c \in DOMAIN db.consultants : SkillsOf(db.cs, c) = supplied[c]

\* C2: under every interleaving, a step that removes a skill removes one
\* that no association row references (so no association row goes with it).
C2_ReferencedSkillNeverDeleted ==
    [][ \A s \in DOMAIN db.skills :
          s \notin DOMAIN db'.skills => ~(\E a \in db.cs : a[2] = s) ]_vars

\* C3: CreateConsultant is atomic.  Until it has returned success the tables
\* are those it was called on, and after a failure they hold no consultant
\* row and no association row of the id it drew; after success all inserts
\* were made and the tables hold the consultant row and one association row
\* per supplied skill id.
C3_CreateConsultantAtomic ==
    Cur.kind = "CreateConsultant" =>
        /\ ~Succeeded(Cur) =>
              /\ Tables(db) = Cur.pre
              /\ Cur.newid # 0 =>
                    /\ Cur.newid \notin DOMAIN db.consultants
                    /\ SkillsOf(db.cs, Cur.newid) = {}
        /\ Succeeded(Cur) =>
              /\ Cur.n = Len(Cur.skills)
              /\ Tables(db) =
                    [consultants |-> Put(Cur.pre.consultants, Cur.newid, NewRow(Cur)),
                     skills |-> Cur.pre.skills,
                     cs |-> Cur.pre.cs \cup Assoc(Cur.newid, Range(Cur.skills))]
\* A create failed after its consultant insert and one association insert.
C3_Witness ==
    /\ Cur.kind = "CreateConsultant" /\ Cur.pc = "done" /\ Cur.err # "nil"
    /\ Cur.newid # 0 /\ Cur.n >= 1

\* C4: UpdateConsultant is atomic.  Until it has returned success the tables
\* are those it was called on, so after a failure at any step the
\* consultant's name, email and associations are what they were; after
\* success every step was made and the row and the associations are the
\* supplied ones.
C4_UpdateConsultantAtomic ==
    Cur.kind = "UpdateConsultant" =>
        /\ ~Succeeded(Cur) => Tables(db) = Cur.pre
        /\ Succeeded(Cur) =>
              /\ Cur.n = Len(Cur.skills)
              /\ Tables(db) =
                    [consultants |-> Put(Cur.pre.consultants, Cur.id, NewRow(Cur)),
                     skills |-> Cur.pre.skills,
                     cs |-> { a \in Cur.pre.cs : a[1] # Cur.id }
                            \cup Assoc(Cur.id, Range(Cur.skills))]
\* An update of a consultant that had skills failed after the name/email
\* update, the delete and one insert.
C4_Witness ==
    /\ Cur.kind = "UpdateConsultant" /\ Cur.pc = "done" /\ Cur.err # "nil"
    /\ Cur.n >= 1
    /\ Cur.id \in DOMAIN Cur.pre.consultants
    /\ Cur.pre.consultants[Cur.id].name # Cur.name
    /\ SkillsOf(Cur.pre.cs, Cur.id) # {}

\* C5: under every interleaving, what a statement of GetConsultant,
\* GetAllConsultants or GetConsultantsBySkill reads is in the tables made of
\* the successful calls only (ref): never a row of a transaction that is in
\* progress or was rolled back, never a consultant of a create in progress,
\* never the emptied or half-filled association set of an update in progress.
C5_ReadsSeeCommittedOnly ==
    [][ \A p \in Procs :
          LET r == req[p]
              r2 == req'[p]
              i == r.n + 1
              rows(S) == { ConsultantVal(c, ref.consultants[c], {}) : c \in S }
          IN  (r2 # r /\ Running(r) /\ r2.err # "fault") =>
              CASE r.pc = "gc_row" ->
                      IF r2.pc = "done" THEN r.id \notin DOMAIN ref.consultants
                      ELSE /\ r.id \in DOMAIN ref.consultants
                           /\ r2.list = << ConsultantVal(r.id, ref.consultants[r.id], {}) >>
                [] r.pc = "gc_skills" -> r2.list[1].skills = SkillsOf(ref.cs, r.id)
                [] r.pc = "ga_rows" -> Range(r2.list) = rows(DOMAIN ref.consultants)
                [] r.pc = "gs_join" ->
                      Range(r2.list) = rows({ c \in DOMAIN ref.consultants : <<c, r.id>> \in ref.cs })
                [] r.pc = "skills" ->
                      IF r2.trunc THEN r2.list[i].skills \subseteq SkillsOf(ref.cs, r.list[i].id)
                      ELSE r2.list[i].skills = SkillsOf(ref.cs, r.list[i].id)
                [] OTHER -> TRUE
    ]_vars
\* A GetConsultant returned the old name and the full old skill set while an
\* update of the same consultant has deleted them and inserted a new row,
\* uncommitted.
C5_Witness ==
    \E p \in Procs, q \in Procs :
        /\ req[p].kind = "GetConsultant" /\ Succeeded(req[p])
        /\ req[q].kind = "UpdateConsultant" /\ req[q].pc \in {"skill", "uc_commit"}
        /\ req[q].id = req[p].id /\ req[q].n >= 1
        /\ req[q].del # {} /\ req[q].ins # req[q].del
        /\ req[p].list[1].skills = req[q].del
        /\ req[p].list[1].name # req[q].name

\* C6: a GetConsultant of the id returned by the last successful write, a
\* CreateConsultant, returns (unless its statement or context fails) the
\* name and email given to the create and a skill_ids list whose elements
\* are the supplied skill ids.
C6_CreateThenGet ==
    (Cur.kind = "GetConsultant" /\ Cur.pc = "done"
       /\ Cur.prev.kind = "CreateConsultant" /\ Cur.prev.id = Cur.id) =>
        /\ Cur.err \in {"nil", "fault"}
        /\ Cur.err = "nil" =>
              Cur.list = << [id |-> Cur.id, name |-> Cur.prev.name,
                             email |-> Cur.prev.email,
                             skills |-> Range(Cur.prev.skills)] >>
C6_Witness ==
    /\ Cur.kind = "GetConsultant" /\ Succeeded(Cur)
    /\ Cur.prev.kind = "CreateConsultant" /\ Cur.prev.id = Cur.id
    /\ Cardinality(Range(Cur.prev.skills)) = 2

\* C7: after a successful UpdateConsultant(id, C) a GetConsultant(id)
\* returns C's name, email and exactly C's skill ids, and a second
\* UpdateConsultant(id, C) succeeds (unless its statement or context fails)
\* and leaves the tables as the first left them.
C7_UpdateThenGetAndRepeat ==
    (Cur.pc = "done" /\ Cur.prev.kind = "UpdateConsultant" /\ Cur.prev.id = Cur.id) =>
        /\ Cur.kind = "GetConsultant" =>
              /\ Cur.err \in {"nil", "fault"}
              /\ Cur.err = "nil" =>
                    Cur.list = << [id |-> Cur.id, name |-> Cur.prev.name,
                                   email |-> Cur.prev.email,
                                   skills |-> Range(Cur.prev.skills)] >>
        /\ (Cur.kind = "UpdateConsultant" /\ Cur.name = Cur.prev.name
              /\ Cur.email = Cur.prev.email /\ Cur.skills = Cur.prev.skills) =>
              /\ Cur.err \in {"nil", "fault"}
              /\ Tables(db) = Cur.pre
              /\ SkillsOf(db.cs, Cur.id) = Range(Cur.skills)
\* The same update succeeded twice; the first removed a skill the
\* consultant had.
C7_Witness ==
    /\ Cur.kind = "UpdateConsultant" /\ Succeeded(Cur)
    /\ Cur.prev.kind = "UpdateConsultant" /\ Cur.prev.id = Cur.id
    /\ Cur.name = Cur.prev.name /\ Cur.email = Cur.prev.email
    /\ Cur.skills = Cur.prev.skills /\ Cur.skills # << >>
    /\ ~(Cur.prev.had \subseteq Range(Cur.skills))

\* C8: GetConsultant, UpdateConsultant and DeleteConsultant of an id that
\* is no consultant fail, with not-found unless the statement or context
\* itself failed, and leave the three tables as they were.
C8_AbsentConsultantNotFound ==
    (Cur.kind \in {"GetConsultant", "UpdateConsultant", "DeleteConsultant"}
       /\ Cur.pc = "done" /\ Cur.id \notin DOMAIN Cur.pre.consultants) =>
        /\ Cur.err \in {"notfound", "fault"}
        /\ Tables(db) = Cur.pre
C8_Witness ==
    /\ Cur.kind = "UpdateConsultant" /\ Cur.pc = "done" /\ Cur.err = "notfound"
    /\ Cur.id \notin DOMAIN Cur.pre.consultants
    /\ Cur.pre.consultants # NoRows /\ Cur.pre.cs # {}
    /\ Cur.skills # << >>

\* C9: in a sequential run DeleteSkill(s) of a skill some association row
\* references fails, with in-use unless the statement or context itself
\* failed, and changes nothing; DeleteSkill(s) of an existing skill that no
\* row references (any more) succeeds, unless a statement or the context
\* fails, and removes the skill and nothing else.
C9_DeleteSkillInUse ==
    (Cur.kind = "DeleteSkill" /\ Cur.pc = "done") =>
        IF \E a \in Cur.pre.cs : a[2] = Cur.id
        THEN Cur.err \in {"inuse", "fault"} /\ Tables(db) = Cur.pre
        ELSE Cur.id \in DOMAIN Cur.pre.skills =>
               /\ Cur.err \in {"nil", "fault"}
               /\ Cur.err = "fault" => Tables(db) = Cur.pre
               /\ Cur.err = "nil" =>
                     Tables(db) = [Cur.pre EXCEPT !.skills = Drop(@, Cur.id)]
\* The skill was deleted right after the update or delete of the consultant
\* that had it.
C9_Witness ==
    /\ Cur.kind = "DeleteSkill" /\ Succeeded(Cur)
    /\ Cur.prev.kind \in {"UpdateConsultant", "DeleteConsultant"}
    /\ Cur.id \in Cur.prev.had

\* C10: a successful DeleteConsultant(id) removes the consultant row and
\* all and only the association rows of id (skills, other consultants and
\* their rows stay), and a GetConsultantsBySkill after it does not return
\* the consultant for any skill.
C10_DeleteConsultantCascade ==
    /\ (Cur.kind = "DeleteConsultant" /\ Succeeded(Cur)) =>
          /\ Cur.id \in DOMAIN Cur.pre.consultants
          /\ Tables(db) = [consultants |-> Drop(Cur.pre.consultants, Cur.id),
                            skills |-> Cur.pre.skills,
                            cs |-> { a \in Cur.pre.cs : a[1] # Cur.id }]
    /\ (Cur.kind = "GetConsultantsBySkill" /\ Succeeded(Cur)
           /\ Cur.prev.kind = "DeleteConsultant") =>
          \A i \in DOMAIN Cur.list : Cur.list[i].id # Cur.prev.id
\* The skill asked for is one the deleted consultant had, and another
\* consultant that has it is returned.
C10_Witness ==
    /\ Cur.kind = "GetConsultantsBySkill" /\ Succeeded(Cur)
    /\ Cur.prev.kind = "DeleteConsultant"
    /\ Cur.id \in Cur.prev.had
    /\ Len(Cur.list) >= 1

\* C11: in a run of calls made one after the other, the id a successful
\* CreateConsultant (resp. CreateSkill) returns is strictly greater than
\* every consultant (resp. skill) id a create returned before it, whether or
\* not those rows were deleted since and whatever creates failed in between.
C11_IdsStrictlyIncrease ==
    Succeeded(Cur) =>
        /\ Cur.kind = "CreateConsultant" =>
              \A c \in Cur.seen.consultants : Cur.list[1].id > c
        /\ Cur.kind = "CreateSkill" =>
              \A k \in Cur.seen.skills : Cur.slist[1].id > k
\* A create succeeded after the consultant created before it was deleted.
C11_Witness ==
    /\ Cur.kind = "CreateConsultant" /\ Succeeded(Cur)
    /\ Cur.seen.consultants # {}
    /\ Cur.seen.consultants \cap DOMAIN db.consultants = {}

\* The consultant c as the tables t hold it: its row and all its skill ids.
StateOf(t, c) ==
    IF c \in DOMAIN t.consultants
    THEN << ConsultantVal(c, t.consultants[c], SkillsOf(t.cs, c)) >>
    ELSE << >>

\* C12: under every interleaving, the name, email and skill ids a GetConsultant
\* returns are together one committed state of the consultant: the one the
\* two requests started on or the one the (only) concurrent write left.
C12_GetConsultantSnapshot ==
    \A p \in Procs :
        (req[p].kind = "GetConsultant" /\ Succeeded(req[p])) =>
            req[p].list \in { StateOf(req[p].pre, req[p].id), StateOf(Tables(db), req[p].id) }

\* C13: under every interleaving, every consultant a GetAllConsultants
\* returns (its association read complete) carries a name, email and skill
\* ids that together are one committed state of that consultant: the one
\* the two requests started on or the one the (only) concurrent write left.
C13_GetAllConsultantsConsistent ==
    \A p \in Procs :
        (req[p].kind = "GetAllConsultants" /\ Succeeded(req[p]) /\ ~req[p].trunc) =>
            \A i \in DOMAIN req[p].list :
                << req[p].list[i] >> \in { StateOf(req[p].pre, req[p].list[i].id),
                                          StateOf(Tables(db), req[p].list[i].id) }

\* C14: with no write running at the same time, a GetConsultantsBySkill(s)
\* that returns without error (it fails only when a statement or the context
\* fails) returns exactly the consultants that have an association row with
\* s, each once and each with all its skill ids; the list is empty when no
\* row references s or s is no skill.
C14_GetConsultantsBySkillExact ==
    (Cur.kind = "GetConsultantsBySkill" /\ Cur.pc = "done") =>
        LET having == { c \in DOMAIN Cur.pre.consultants : <<c, Cur.id>> \in Cur.pre.cs }
        IN  /\ Cur.err \in {"nil", "fault"}
            /\ Cur.err = "nil" =>
                  /\ Len(Cur.list) = Cardinality(having)
                  /\ Range(Cur.list) = { StateOf(Cur.pre, c)[1] : c \in having }

\* C15: from the empty store, as long as the run is the scenario and no
\* statement or context fails: CreateSkill(Go) returns id 1, CreateSkill(SQL)
\* id 2, CreateConsultant(Ann, [1,2]) id 1, GetConsultantsBySkill(1) returns
\* Ann alone, UpdateConsultant(1, Ann, [2]) succeeds, GetConsultantsBySkill(1)
\* then returns the empty list and DeleteSkill(1) succeeds.
C15_Scenario ==
    (Cur.pc = "done" /\ OnScenario(Cur)) =>
        /\ Cur.err \in {"nil", "fault"}
        /\ Cur.err = "nil" =>
              CASE Cur.step = 0 -> Cur.slist[1].id = 1
                [] Cur.step = 1 -> Cur.slist[1].id = 2
                [] Cur.step = 2 -> Cur.list[1].id = 1
                [] Cur.step = 3 ->
                      /\ Len(Cur.list) = 1
                      /\ Cur.list[1].id = 1
                      /\ Cur.list[1].name = "Ann" /\ Cur.list[1].email = "ann@x.com"
                [] Cur.step = 5 -> Cur.list = << >>
                [] OTHER -> TRUE
\* The last call of the scenario, DeleteSkill(1), returned success.
C15_Witness ==
    Cur.step = 6 /\ OnScenario(Cur) /\ Succeeded(Cur) /\ 1 \notin DOMAIN db.skills

\* C16: under every interleaving, once two concurrent UpdateConsultant calls
\* of one consultant have both returned, the consultant's name, email and
\* association set are those the successful calls leave when applied whole in
\* the order of their commits: when both succeeded, entirely those of one of
\* the two, never a mixture and never the union of the two skill sets.
C16_SameIdUpdatesSerialize ==
    \A p \in Procs : \A q \in Procs \ {p} :
        LET u == req[p]
            v == req[q]
            Asked(r) == << ConsultantVal(r.id, r, Range(r.skills)) >>
            final == StateOf(Tables(db), u.id)
        IN  (u.kind = "UpdateConsultant" /\ v.kind = "UpdateConsultant"
               /\ u.id = v.id /\ u.pc = "done" /\ v.pc = "done") =>
                /\ final = StateOf(ref, u.id)
                /\ (Succeeded(u) /\ Succeeded(v)) => final \in {Asked(u), Asked(v)}
                /\ (Succeeded(u) /\ ~Succeeded(v)) => final = Asked(u)
\* Both updates succeeded, with different names and with skill sets of which
\* neither holds the other.
C16_Witness ==
    \E p \in Procs : \E q \in Procs \ {p} :
        /\ req[p].kind = "UpdateConsultant" /\ req[q].kind = "UpdateConsultant"
        /\ req[p].id = req[q].id
        /\ Succeeded(req[p]) /\ Succeeded(req[q])
        /\ req[p].name # req[q].name
        /\ ~(Range(req[p].skills) \subseteq Range(req[q].skills))
        /\ ~(Range(req[q].skills) \subseteq Range(req[p].skills))

\* A call run alone on store d, statement after statement, to its return.
RECURSIVE Run(_, _)
Run(d, r) ==
    IF ~Running(r) THEN { Out(d, r) }
    ELSE UNION { Run(o.d, o.r) : o \in Stmt(d, r) }

\* What a caller gets back: the error and the consultant.
Res(r) == << r.err, r.list >>

\* The call request r made, at its first statement.
CallOf(r) ==
    Args(r.kind, IF r.kind = "CreateConsultant" THEN "cc_insert" ELSE "uc_exists",
         r.id, r.name, r.email, r.description, r.skills)

\* The results of call a, of call b and the tables, for a run alone on store
\* d and then b run alone on what a left.
Serial(d, a, b) ==
    UNION { { << Res(x.r), Res(y.r), Tables(y.d) >> : y \in Run(x.d, CallOf(b)) } :
            x \in Run(d, CallOf(a)) }

\* Requests p and q have returned from a CreateConsultant or UpdateConsultant
\* call each, on different consultant ids, no statement of either having
\* failed of itself.
DifferentIds(p, q) ==
    /\ p # q
    /\ \A x \in {p, q} :
          /\ req[x].kind \in {"CreateConsultant", "UpdateConsultant"}
          /\ req[x].pc = "done"
          /\ req[x].err # "fault"
    /\ TxTarget(req[p]) # TxTarget(req[q])

AsInOrder(p, q) ==
    << Res(req[p]), Res(req[q]), Tables(db) >> \in Serial(req[p].pre, req[p], req[q])

\* Call u supplies an email that call v supplies or that the consultant v
\* updates held in store d.
Collide(d, u, v) ==
    \/ u.email = v.email
    \/ /\ v.kind = "UpdateConsultant"
       /\ v.id \in DOMAIN d.consultants
       /\ d.consultants[v.id].email = u.email

C18_NoTruncatedSuccess ==
    (Cur.kind \in {"GetConsultant", "GetAllConsultants", "GetConsultantsBySkill"}
        /\ Succeeded(Cur)) =>
        \A i \in DOMAIN Cur.list :
            Cur.list[i].skills = SkillsOf(Cur.pre.cs, Cur.list[i].id)

\* C19: when a repository method has returned (success, not found, a refused
\* statement, a failed statement or commit, an expired context), its timeout
\* context is released and the transaction it began, if any, is committed or
\* rolled back: none is left open and none of its uncommitted writes or
\* locks remains.
C19_NoOpenTransaction ==
    \A p \in Procs :
        req[p].pc = "done" =>
            /\ req[p].ctx = "released"
            /\ req[p].tx \in {"none", "committed", "rolledback"}
            /\ req[p].kind \in TxKinds => (req[p].tx = "committed") = (req[p].err = "nil")
            /\ ~req[p].locked /\ req[p].ins = {} /\ req[p].del = {}

C19_Witness ==
    /\ Cur.kind = "UpdateConsultant" /\ Cur.pc = "done"
    /\ Cur.err = "constraint" /\ Cur.n > 0
    /\ Cur.tx = "rolledback" /\ Cur.ctx = "released"

\* C20: GetSkill(id), UpdateSkill(id, _) and DeleteSkill(id) for an id that
\* is no skill of the store fail, with the not-found error unless a statement
\* or the context failed (never with the in-use error), and leave the tables
\* as they were; an UpdateSkill(id, S) that succeeds leaves the tables as
\* they were but for the name and description of skill id, which are those
\* of S, and returns S with the id id.
C20_AbsentSkillNotFound ==
    Cur.pc = "done" =>
        LET S == [name |-> Cur.name, description |-> Cur.description]
        IN  /\ ( /\ Cur.kind \in {"GetSkill", "UpdateSkill", "DeleteSkill"}
                 /\ Cur.id \notin DOMAIN Cur.pre.skills )
               => Cur.err \in {"notfound", "fault"} /\ Tables(db) = Cur.pre
            /\ (Cur.kind = "UpdateSkill" /\ Succeeded(Cur))
               => /\ Cur.id \in DOMAIN Cur.pre.skills
                  /\ Tables(db) = [Cur.pre EXCEPT !.skills[Cur.id] = S]
                  /\ Cur.slist = << SkillVal(Cur.id, S) >>

C20_Witness ==
    /\ Cur.kind = "DeleteSkill" /\ Cur.pc = "done" /\ Cur.err = "notfound"
    /\ Cur.id \notin DOMAIN Cur.pre.skills
    /\ Cur.pre.skills # NoRows /\ Cur.pre.cs # {}

\* C21: an UpdateConsultant(id, C) that succeeds returns the consultant with
\* the id of the path, whatever ID the body C carries; the row and the
\* association rows of id are those of C, and every other consultant (the
\* one C's ID names among them) and every skill is as before.
C21_UpdateIgnoresBodyId ==
    (Cur.kind = "UpdateConsultant" /\ Succeeded(Cur)) =>
        /\ Cur.list = << ConsultantVal(Cur.id, Cur, Range(Cur.skills)) >>
        /\ StateOf(Tables(db), Cur.id) = Cur.list
        /\ \A c \in ConsultantIds \ {Cur.id} :
              StateOf(Tables(db), c) = StateOf(Cur.pre, c)
        /\ db.skills = Cur.pre.skills

C21_Witness ==
    /\ Cur.kind = "UpdateConsultant" /\ Succeeded(Cur)
    /\ Cur.cid \notin {0, Cur.id}
    /\ Cur.cid \in DOMAIN Cur.pre.consultants
    /\ StateOf(Tables(db), Cur.id) # StateOf(Cur.pre, Cur.id)

\* Request r asks for an email (a name) that, in store d, another consultant
\* (skill) than the one it writes holds.
Duplicates(d, r) ==
    \/ r.kind = "CreateConsultant" /\ r.email \in EmailsBut(d, 0)
    \/ r.kind = "UpdateConsultant" /\ r.email \in EmailsBut(d, r.id)
    \/ r.kind = "CreateSkill" /\ r.name \in NamesBut(d, 0)
    \/ r.kind = "UpdateSkill" /\ r.name \in NamesBut(d, r.id)

\* C22: at every moment no two consultants of the store have the same email
\* and no two skills the same name; a create or update that asks for an email
\* or name another row holds returns an error and leaves the tables as they
\* were (the other request not having called yet); of two concurrent calls
\* that ask for the same new email or name for different rows at most one
\* succeeds.
C22_EmailsAndNamesUnique ==
    /\ \A c \in DOMAIN db.consultants : db.consultants[c].email \notin EmailsBut(db, c)
    /\ \A k \in DOMAIN db.skills : db.skills[k].name \notin NamesBut(db, k)
    /\ \A p \in Procs : \A q \in Procs \ {p} :
          /\ (req[p].pc = "done" /\ req[q].pc = "idle" /\ Duplicates(req[p].pre, req[p]))
             => ~Succeeded(req[p]) /\ Tables(db) = Tables(req[p].pre)
          /\ ( /\ Succeeded(req[p]) /\ Succeeded(req[q])
               /\ {req[p].kind, req[q].kind} \subseteq {"CreateConsultant", "UpdateConsultant"}
               /\ TxTarget(req[p]) # TxTarget(req[q]) )
             => req[p].email # req[q].email
          /\ ( /\ Succeeded(req[p]) /\ Succeeded(req[q])
               /\ {req[p].kind, req[q].kind} \subseteq {"CreateSkill", "UpdateSkill"}
               /\ req[p].slist[1].id # req[q].slist[1].id )
             => req[p].name # req[q].name

C22_Witness ==
    \E p \in Procs : \E q \in Procs \ {p} :
        /\ req[p].kind = "CreateConsultant" /\ req[q].kind = "UpdateConsultant"
        /\ req[p].email = req[q].email
        /\ req[p].email \notin EmailsBut(req[p].pre, 0)
        /\ req[q].id \in DOMAIN req[q].pre.consultants
        /\ Succeeded(req[p]) /\ req[q].pc = "done" /\ req[q].err = "constraint"
        /\ req[q].n = 0

\* C23: New returns a handle only when PingContext and then initDatabase
\* succeeded; initDatabase is not run unless the ping succeeded; when the
\* ping or initDatabase fails New returns no handle.
C23_HandleAfterPingAndSchema ==
    /\ process.handle => process.pinged = "ok" /\ process.schema = "ok"
    /\ process.schema # "no" => process.pinged = "ok"
    /\ (process.pinged = "failed" \/ process.schema = "failed") => ~process.handle
    /\ (process.pinged = "ok" /\ process.schema = "ok") => process.handle

C23_Witness ==
    /\ process.pc = "ready" /\ process.handle
    /\ process.pool = "open" /\ db.schema = AllTables

\* C24: New (and so initDatabase) run on a store that holds the three tables
\* leaves the tables, their rows and the two sequences as they are, whether
\* it succeeds or a step fails.
C24_SchemaIdempotent ==
    [][(process.pc = "new" /\ db.schema = AllTables) => db' = db]_vars

C24_Witness ==
    /\ process.pc = "ready" /\ process.schema = "ok"
    /\ db.consultants # NoRows /\ db.cs # {} /\ db.nextS > 1

\* C25: routes are registered, the server listens and a request runs only
\* in a process whose New returned a handle, after a ping and a schema
\* creation that succeeded; when New fails main goes to its exit with no
\* route registered and no server started.
C25_NoRequestBeforeOpen ==
    /\ (process.routes \/ process.listening \/ \E p \in Procs : req[p].pc # "idle")
       => /\ process.handle
          /\ process.pinged = "ok" /\ process.schema = "ok"
          /\ db.schema = AllTables
    /\ ~process.handle => process.pc \in {"new", "exit"}

C25_Witness ==
    /\ Running(Cur) /\ Cur.kind = "CreateConsultant"
    /\ process.handle

\* C30: the pool is closed only after Shutdown returned, that is when the
\* server no longer listens and no request is in flight: no request runs
\* while the pool is closed.
C30_ServerStopsBeforePool ==
    process.pool = "closed" =>
        /\ process.pc \in {"closed", "exit"}
        /\ ~process.listening
        /\ \A p \in Procs : req[p].pc = "idle"

C30_Witness ==
    process.pool = "closed" /\ process.inflight /\ process.pc = "closed"

\* C26: the status code of the response to a request that reached the
\* repository follows the kind of the repository's outcome: 404 for not
\* found, 409 for a skill in use, 500 for every other error, and on success
\* 201 for a create, 204 for a delete, 200 otherwise; DELETE of a skill is
\* answered 409 exactly when the repository says the skill is in use, which
\* (no statement failing) is when an association row references it.
C26_StatusFollowsOutcome ==
    (Cur.pc = "done" /\ Cur.status # 0 /\ Cur.ctx # "none") =>
        /\ Cur.status =
              CASE Cur.err = "notfound" -> 404
                [] Cur.err = "inuse" -> 409
                [] Cur.err = "nil" ->
                      IF Cur.kind \in {"CreateConsultant", "CreateSkill"} THEN 201
                      ELSE IF Cur.kind \in {"DeleteConsultant", "DeleteSkill"} THEN 204
                      ELSE 200
                [] OTHER -> 500
        /\ (Cur.kind = "DeleteSkill" /\ Cur.err # "fault") =>
              (Cur.status = 409) = (\E x \in Cur.pre.cs : x[2] = Cur.id)

C26_Witness ==
    /\ Cur.kind = "DeleteSkill" /\ Cur.pc = "done" /\ Cur.status = 409
    /\ Tables(db) = Tables(Cur.pre)

\* C27: a create or update request whose body cannot be decoded, or whose
\* consultant name or email, or whose skill name, is empty is answered 400
\* without a repository call: the tables and the sequences are as before.
C27_InvalidInputRefused ==
    ( /\ Cur.pc = "done" /\ Cur.kind \in BodyKinds
      /\ \/ ~Cur.json
         \/ Cur.name = ""
         \/ Cur.kind \in ConsultantKinds /\ Cur.email = "" )
    => /\ Cur.status = 400
       /\ Cur.ctx = "none" /\ Cur.tx = "none"
       /\ db = Cur.pre

C27_Witness ==
    /\ Cur.kind = "UpdateConsultant" /\ Cur.pc = "done" /\ Cur.status = 400
    /\ Cur.json /\ Cur.email = "" /\ Cur.name # ""
    /\ Cur.id \in DOMAIN db.consultants

Threads == {"g1", "g2"}
MaxCalls == 3

\* The ids the calls name: a seeded one, the first id CreateProject
\* assigns, and the first id CreateConsultant and CreateSkill assign.
StoreIds == {1, 3, 4}

Kinds == {"consultants", "skills", "projects"}

\* nextConsultantID, nextSkillID, nextProjectID
NextField(kind) ==
    CASE kind = "consultants" -> "nextConsultantID"
      [] kind = "skills"      -> "nextSkillID"
      [] kind = "projects"    -> "nextProjectID"

\* What a call returns: the error (or nil) and the values; a slice built by
\* ranging over a map has no fixed order and is kept as a set.
Result(err, out) == [err |-> err, out |-> out]
NoResult == Result(FALSE, {})

\* consultant.ID = id (likewise for a skill and a project)
WithId(v, id) == [v EXCEPT !.id = id]

\* GetConsultant, GetSkill, GetProject
Store_Get(S, kind, id) ==
    IF id \notin DOMAIN S[kind]
    THEN [s |-> S, r |-> Result(TRUE, {})]
    ELSE [s |-> S, r |-> Result(FALSE, {S[kind][id]})]

\* GetAllConsultants, GetAllSkills, GetAllProjects
Store_GetAll(S, kind) ==
    [s |-> S, r |-> Result(FALSE, Range(S[kind]))]

\* GetConsultantsBySkill
Store_GetConsultantsBySkill(S, skillID) ==
    [s |-> S,
     r |-> Result(FALSE, { c \in Range(S.consultants) : skillID \in Range(c.skills) })]

\* CreateConsultant, CreateSkill, CreateProject, run alone
Store_Create(S, kind, v) ==
    LET id == S[NextField(kind)]
        e  == WithId(v, id)
    IN  [s |-> [S EXCEPT ![NextField(kind)] = @ + 1, ![kind] = Put(@, id, e)],
         r |-> Result(FALSE, {e})]

\* UpdateConsultant, UpdateSkill, UpdateProject
Store_Update(S, kind, id, v) ==
    IF id \notin DOMAIN S[kind]
    THEN [s |-> S, r |-> Result(TRUE, {})]
    ELSE [s |-> [S EXCEPT ![kind] = Put(@, id, WithId(v, id))],
          r |-> Result(FALSE, {WithId(v, id)})]

\* Faulty variant: the consultants of a deleted project keep its id.
Unassign_Skipped(cs, id) == cs
\* DeleteProject's loop: consultants assigned to the project lose it.
Unassign(cs, id) ==
    [c \in DOMAIN cs |->
        IF cs[c].project = id THEN [cs[c] EXCEPT !.project = 0] ELSE cs[c]]

\* Faulty variant: a skill that a consultant lists is not deleted.
Store_Delete_Restrict(S, kind, id) ==
    IF id \notin DOMAIN S[kind]
       \/ (kind = "skills" /\ \E c \in DOMAIN S.consultants :
                                 id \in Range(S.consultants[c].skills))
    THEN [s |-> S, r |-> Result(TRUE, {})]
    ELSE LET T == [S EXCEPT ![kind] = Drop(@, id)]
         IN  [s |-> IF kind = "projects"
                    THEN [T EXCEPT !.consultants = Unassign(@, id)]
                    ELSE T,
              r |-> Result(FALSE, {})]
\* DeleteConsultant, DeleteSkill, DeleteProject
Store_Delete(S, kind, id) ==
    IF id \notin DOMAIN S[kind]
    THEN [s |-> S, r |-> Result(TRUE, {})]
    ELSE LET T == [S EXCEPT ![kind] = Drop(@, id)]
         IN  [s |-> IF kind = "projects"
                    THEN [T EXCEPT !.consultants = Unassign(@, id)]
                    ELSE T,
              r |-> Result(FALSE, {})]

\* One call run alone on store S.
StoreCall(S, c) ==
    CASE c.op = "Get"    -> Store_Get(S, c.kind, c.id)
      [] c.op = "GetAll" -> Store_GetAll(S, c.kind)
      [] c.op = "GetConsultantsBySkill" -> Store_GetConsultantsBySkill(S, c.id)
      [] c.op = "Create" -> Store_Create(S, c.kind, c.val)
      [] c.op = "Update" -> Store_Update(S, c.kind, c.id, c.val)
      [] c.op = "Delete" -> Store_Delete(S, c.kind, c.id)

\* NewStore() before seedData(): empty maps, counters at 1.
StoreZero ==
    [consultants |-> << >>, skills |-> << >>, projects |-> << >>,
     nextConsultantID |-> 1, nextSkillID |-> 1, nextProjectID |-> 1]

\* seedData(): three skills, two projects, three consultants (project 0 is
\* a nil ProjectID).
seedData(S) ==
    LET s1 == Store_Create(S,  "skills", [id |-> 0, name |-> "Programming"]).s
        s2 == Store_Create(s1, "skills", [id |-> 0, name |-> "Project Management"]).s
        s3 == Store_Create(s2, "skills", [id |-> 0, name |-> "Data Analysis"]).s
        s4 == Store_Create(s3, "projects", [id |-> 0, name |-> "Web Application"]).s
        s5 == Store_Create(s4, "projects", [id |-> 0, name |-> "Data Warehouse"]).s
        s6 == Store_Create(s5, "consultants",
                [id |-> 0, name |-> "John Doe", skills |-> <<1, 2>>, project |-> 1]).s
        s7 == Store_Create(s6, "consultants",
                [id |-> 0, name |-> "Jane Smith", skills |-> <<3>>, project |-> 2]).s
    IN  Store_Create(s7, "consultants",
                [id |-> 0, name |-> "Bob Johnson", skills |-> <<1, 3>>, project |-> 0]).s

NewStore == seedData(StoreZero)

\* The values the calls pass in; the ID a caller sets is overwritten.
NewVals(kind) ==
    IF kind = "consultants"
    THEN {[id |-> 0, name |-> "New", skills |-> <<1>>, project |-> 1],
          [id |-> 9, name |-> "Other", skills |-> << >>, project |-> 0]}
    ELSE {[id |-> 0, name |-> "New"]}

NoVal == [id |-> 0, name |-> ""]

StoreCalls ==
    { [op |-> "Get", kind |-> k, id |-> i, val |-> NoVal] : k \in Kinds, i \in StoreIds }
    \cup { [op |-> "GetAll", kind |-> k, id |-> 0, val |-> NoVal] : k \in Kinds }
    \cup { [op |-> "GetConsultantsBySkill", kind |-> "consultants", id |-> i, val |-> NoVal] :
             i \in StoreIds }
    \cup UNION { { [op |-> "Create", kind |-> k, id |-> 0, val |-> v] : v \in NewVals(k) } :
                 k \in Kinds }
    \cup UNION { { [op |-> "Update", kind |-> k, id |-> i, val |-> v] :
                     i \in StoreIds, v \in NewVals(k) } : k \in Kinds }
    \cup { [op |-> "Delete", kind |-> k, id |-> i, val |-> NoVal] : k \in Kinds, i \in StoreIds }

\* The calls that take s.mutex.Lock(); the others take s.mutex.RLock().
Writers == {"Create", "Update", "Delete"}

\* A goroutine outside any call.  got is what its call returns; want is
\* what the call returns in the order the calls took effect.
IdleThread ==
    [op |-> "none", kind |-> "none", id |-> 0, val |-> NoVal, pc |-> "idle",
     got |-> NoResult, want |-> NoResult]

\* The Store after NewStore(), with nobody calling.  lin is the store the
\* calls build when run one after another in the order they took effect,
\* issued the ids each counter has handed out, deleted the ids removed.
MadeStore ==
    [made |-> TRUE, store |-> NewStore, mutex |-> [w |-> "none", r |-> {}],
     th |-> [t \in Threads |-> IdleThread], calls |-> 0,
     lin |-> NewStore,
     issued |-> [consultants |-> <<1, 2, 3>>, skills |-> <<1, 2, 3>>, projects |-> <<1, 2>>],
     deleted |-> [k \in Kinds |-> {}]]

\* sync.RWMutex: Lock() waits for the writer and for every reader to leave.
CanLock_NoWait(m) == TRUE
CanLock(m) == m.w = "none" /\ m.r = {}

\* sync.RWMutex: RLock() waits for the writer to leave.
CanRLock(m) == m.w = "none"

\* A goroutine enters one of the Store's methods.
Store_Call(t) ==
    /\ mem.th[t].pc = "idle"
    /\ mem.calls < MaxCalls
    /\ \E c \in StoreCalls :
         mem' = [mem EXCEPT !.calls = @ + 1,
                            !.th[t] = [IdleThread EXCEPT !.op = c.op, !.kind = c.kind,
                                                         !.id = c.id, !.val = c.val,
                                                         !.pc = "lock"]]
    /\ UNCHANGED <<db, req, supplied, ref, process>>

\* s.mutex.Lock()
Store_Lock(t) ==
    /\ mem.th[t].pc = "lock"
    /\ mem.th[t].op \in Writers
    /\ CanLock(mem.mutex)
    /\ mem' = [mem EXCEPT !.mutex.w = t,
                          !.th[t].pc = IF mem.th[t].op = "Create" THEN "assign" ELSE "body"]
    /\ UNCHANGED <<db, req, supplied, ref, process>>

\* s.mutex.RLock()
Store_RLock(t) ==
    /\ mem.th[t].pc = "lock"
    /\ mem.th[t].op \notin Writers
    /\ CanRLock(mem.mutex)
    /\ mem' = [mem EXCEPT !.mutex.r = @ \cup {t}, !.th[t].pc = "body"]
    /\ UNCHANGED <<db, req, supplied, ref, process>>

\* The call takes effect: the ordered store, what the call returns in that
\* order, and the ids handed out and removed.
TakeEffect(m, t, id, ok) ==
    LET c == m.th[t]
        g == StoreCall(m.lin, c)
    IN  [m EXCEPT !.lin = g.s,
                  !.th[t].want = g.r,
                  !.issued[c.kind] = IF c.op = "Create" THEN Append(@, id) ELSE @,
                  !.deleted[c.kind] = IF c.op = "Delete" /\ ok THEN @ \cup {id} ELSE @]

\* Create*: consultant.ID = s.nextConsultantID
Store_Assign(t) ==
    /\ mem.th[t].pc = "assign"
    /\ mem' = [mem EXCEPT !.th[t].id = mem.store[NextField(mem.th[t].kind)],
                          !.th[t].pc = "store"]
    /\ UNCHANGED <<db, req, supplied, ref, process>>

\* Create*: s.nextConsultantID++ ; s.consultants[consultant.ID] = consultant
Store_Store(t) ==
    /\ mem.th[t].pc = "store"
    /\ LET c == mem.th[t]
           e == WithId(c.val, c.id)
           m == [mem EXCEPT !.store[NextField(c.kind)] = @ + 1,
                            !.store[c.kind] = Put(@, c.id, e),
                            !.th[t].got = Result(FALSE, {e}),
                            !.th[t].pc = "unlock"]
       IN  mem' = TakeEffect(m, t, c.id, TRUE)
    /\ UNCHANGED <<db, req, supplied, ref, process>>

\* The body of every other method, under the mutex.
Store_Body(t) ==
    /\ mem.th[t].pc = "body"
    /\ LET c == mem.th[t]
           o == StoreCall(mem.store, c)
           m == [mem EXCEPT !.store = o.s, !.th[t].got = o.r, !.th[t].pc = "unlock"]
       IN  mem' = TakeEffect(m, t, c.id, ~o.r.err)
    /\ UNCHANGED <<db, req, supplied, ref, process>>

\* defer s.mutex.Unlock() / defer s.mutex.RUnlock(), and the return
Store_Unlock(t) ==
    /\ mem.th[t].pc = "unlock"
    /\ mem' = [mem EXCEPT !.mutex.w = IF @ = t THEN "none" ELSE @,
                          !.mutex.r = @ \ {t},
                          !.th[t] = IdleThread]
    /\ UNCHANGED <<db, req, supplied, ref, process>>

InitStore ==
    /\ db = EmptyDB
    /\ req = [p \in Procs |-> Idle]
    /\ supplied = [c \in ConsultantIds |-> {}]
    /\ ref = Tables(EmptyDB)
    /\ process = Serving
    /\ mem = MadeStore

NextStore ==
    \E t \in Threads :
        \/ Store_Call(t)
        \/ Store_Lock(t)
        \/ Store_RLock(t)
        \/ Store_Assign(t)
        \/ Store_Store(t)
        \/ Store_Body(t)
        \/ Store_Unlock(t)

SpecStore == InitStore /\ [][NextStore]_vars

\* No goroutine is inside a method's body.
Quiet == \A t \in Threads : mem.th[t].pc \in {"idle", "lock"}

Increasing(s) == \A i \in 1..(Len(s) - 1) : s[i] < s[i + 1]

\* C29: the Store is thread-safe.  Under every interleaving of the
\* goroutines' Create, Update, Delete and Get calls, the ids each counter
\* hands out are strictly increasing (so distinct, and never reused after a
\* delete); every call returns what it returns when the calls run one after
\* another in the order they took effect; whenever no call is inside a
\* method the maps and counters are those of that sequential run; and every
\* id handed out is still in its map unless a Delete removed it.
C29_StoreThreadSafe ==
    /\ \A k \in Kinds : Increasing(mem.issued[k])
    /\ \A t \in Threads : mem.th[t].pc = "unlock" => mem.th[t].got = mem.th[t].want
    /\ Quiet => mem.store = mem.lin
    /\ Quiet => \A k \in Kinds : \A i \in Range(mem.issued[k]) :
                    i \in DOMAIN mem.store[k] \/ i \in mem.deleted[k]

\* Consultant 4 was created and deleted, and the next create got id 5.
C29_Witness ==
    /\ mem.issued.consultants = <<1, 2, 3, 4, 5>>
    /\ 4 \in mem.deleted.consultants
    /\ 5 \in DOMAIN mem.store.consultants
    /\ Quiet

\* C31: when the process of a service that opened its pool is gone (main
\* returned or log.Fatalf ended it), Close was called on the pool, whichever
\* way the service stopped: a clean shutdown after an interrupt, a server
\* error, or the shutdown deadline running out.
C31_PoolClosedAtExit ==
    (process.pc = "exit" /\ process.handle) => process.pool = "closed"

\* C32: referential integrity.  In every reachable state of two requests
\* running concurrently, every association row references a consultant row
\* and a skill row that exist; in particular a consultant deleted while an
\* UpdateConsultant of the same id was running has no association row,
\* neither while that update runs nor after it returned.
C32_ReferentialIntegrity ==
    /\ \A a \in db.cs : a[1] \in DOMAIN db.consultants /\ a[2] \in DOMAIN db.skills
    /\ \A p \in Procs : \A q \in Procs \ {p} :
          ( /\ req[p].kind = "DeleteConsultant" /\ Succeeded(req[p])
            /\ req[q].kind = "UpdateConsultant" /\ req[q].id = req[p].id
            /\ req[q].id \notin DOMAIN db.consultants )
          => SkillsOf(db.cs, req[q].id) = {}

\* An UpdateConsultant passed its existence check, the consultant was then
\* deleted by the other request, the UPDATE touched no row and the update
\* is about to insert its first association row.
C32_Witness ==
    \E p \in Procs : \E q \in Procs \ {p} :
        /\ req[p].kind = "DeleteConsultant" /\ Succeeded(req[p])
        /\ req[q].kind = "UpdateConsultant" /\ req[q].id = req[p].id
        /\ req[q].pc = "skill" /\ ~req[q].locked
        /\ req[q].skills[1] \in DOMAIN db.skills
        /\ req[q].id \notin DOMAIN db.consultants

\* The skill_ids list of request r names a skill that did not exist when
\* the call began, or names the same skill twice.
BadSkillList(r) ==
    \/ \E i \in DOMAIN r.skills : r.skills[i] \notin DOMAIN r.pre.skills
    \/ \E i \in DOMAIN r.skills : \E j \in DOMAIN r.skills : i # j /\ r.skills[i] = r.skills[j]

\* C33: a CreateConsultant or UpdateConsultant whose skill_ids list names a
\* skill that does not exist, or the same skill twice, fails as a whole: it
\* returns an error and the consultants, skills and association tables are
\* what they were when the call began (no consultant row from the create;
\* name, email and associations of the updated consultant as before).
C33_BadSkillListFailsWhole ==
    ( /\ Cur.pc = "done"
      /\ Cur.kind \in {"CreateConsultant", "UpdateConsultant"}
      /\ BadSkillList(Cur) )
    => /\ Cur.err # "nil"
       /\ Tables(db) = Cur.pre

\* An update of an existing consultant that has associations, with a list
\* naming an existing skill twice, was refused by the primary key.
C33_Witness ==
    /\ Cur.pc = "done" /\ Cur.kind = "UpdateConsultant"
    /\ Cur.id \in DOMAIN db.consultants
    /\ SkillsOf(db.cs, Cur.id) # {}
    /\ Len(Cur.skills) = 2 /\ Cur.skills[1] = Cur.skills[2]
    /\ Cur.skills[1] \in DOMAIN db.skills
    /\ Cur.err = "constraint" /\ Cur.tx = "rolledback"
    /\ db.consultants[Cur.id].name # Cur.name

\* The methods that only read.
ReadKinds ==
    {"GetConsultant", "GetAllConsultants", "GetConsultantsBySkill", "GetSkill", "GetAllSkills"}

\* C34: the read operations never change the store.  No step of a
\* GetConsultant, GetAllConsultants, GetConsultantsBySkill, GetSkill or
\* GetAllSkills call, whether it goes on, returns a result or returns an
\* error, changes the consultants, skills or association tables, the two id
\* sequences or the schema: the store after the call is the store before it.
C34_ReadsChangeNothing ==
    [][(Running(Cur) /\ Cur.kind \in ReadKinds) => db' = db]_vars

\* A read of a store that holds rows has returned: a GetConsultant with
\* its result, or a GetAllConsultants with the error of a failed statement.
C34_Witness ==
    /\ Cur.pc = "done" /\ Cur.kind \in ReadKinds
    /\ db.cs # {} /\ db.nextC > 1
    /\ \/ Cur.kind = "GetConsultant" /\ Cur.err = "nil" /\ Cur.tx = "committed"
       \/ Cur.kind = "GetAllConsultants" /\ Cur.err = "fault"

\* Goroutine t runs the body of Delete of the given kind in this step.
Deletes(t, kind) ==
    /\ mem.th[t].pc = "body" /\ mem.th[t].op = "Delete" /\ mem.th[t].kind = kind
    /\ mem'.th[t].pc = "unlock"

\* C35: a DeleteProject(id) of a project that exists returns no error,
\* removes that project and no other, and leaves no consultant assigned to
\* id: the consultants that were assigned to it have no project, all their
\* other fields are as before, and every other consultant is unchanged; the
\* skills and the three counters are unchanged.  A DeleteProject of an
\* absent id returns the not-found error and changes nothing.
C35_DeleteProjectUnassigns ==
    [][\A t \in Threads :
         Deletes(t, "projects") =>
            LET i == mem.th[t].id
                S == mem.store
                T == mem'.store
            IN  IF i \in DOMAIN S.projects
                THEN /\ ~mem'.th[t].got.err
                     /\ DOMAIN T.projects = DOMAIN S.projects \ {i}
                     /\ \A j \in DOMAIN T.projects : T.projects[j] = S.projects[j]
                     /\ DOMAIN T.consultants = DOMAIN S.consultants
                     /\ \A c \in DOMAIN S.consultants :
                           /\ T.consultants[c].project # i
                           /\ T.consultants[c].id = S.consultants[c].id
                           /\ T.consultants[c].name = S.consultants[c].name
                           /\ T.consultants[c].skills = S.consultants[c].skills
                           /\ S.consultants[c].project # i
                                 => T.consultants[c] = S.consultants[c]
                           /\ S.consultants[c].project = i
                                 => T.consultants[c].project = 0
                     /\ T.skills = S.skills
                     /\ \A k \in Kinds : T[NextField(k)] = S[NextField(k)]
                ELSE mem'.th[t].got.err /\ T = S]_vars

\* DeleteProject(1) returned: John Doe and a consultant created on project
\* 1 have no project and keep their skills, Jane Smith keeps project 2.
C35_Witness ==
    \E t \in Threads :
        /\ mem.th[t].pc = "unlock" /\ mem.th[t].op = "Delete"
        /\ mem.th[t].kind = "projects" /\ mem.th[t].id = 1
        /\ ~mem.th[t].got.err
        /\ 1 \notin DOMAIN mem.store.projects
        /\ {1, 2, 4} \subseteq DOMAIN mem.store.consultants
        /\ mem.store.consultants[1].project = 0
        /\ mem.store.consultants[1].skills = <<1, 2>>
        /\ mem.store.consultants[4].name = "New"
        /\ mem.store.consultants[4].project = 0
        /\ mem.store.consultants[2].project = 2

\* C36: a DeleteSkill(id) of a skill that exists returns no error whether
\* or not a consultant lists the skill, removes that skill and no other,
\* and leaves every consultant, its SkillIDs list included, the projects
\* and the counters unchanged, so that GetConsultantsBySkill(id) still
\* answers the consultants that list it.  A DeleteSkill of an absent id
\* returns the not-found error and changes nothing.
C36_DeleteSkillOnlyTheSkill ==
    [][\A t \in Threads :
         Deletes(t, "skills") =>
            LET i == mem.th[t].id
                S == mem.store
                T == mem'.store
            IN  IF i \in DOMAIN S.skills
                THEN /\ ~mem'.th[t].got.err
                     /\ DOMAIN T.skills = DOMAIN S.skills \ {i}
                     /\ \A j \in DOMAIN T.skills : T.skills[j] = S.skills[j]
                     /\ T.consultants = S.consultants
                     /\ T.projects = S.projects
                     /\ \A k \in Kinds : T[NextField(k)] = S[NextField(k)]
                     /\ Store_GetConsultantsBySkill(T, i).r
                           = Store_GetConsultantsBySkill(S, i).r
                ELSE mem'.th[t].got.err /\ T = S]_vars

\* DeleteSkill(1) returned with no error while John Doe and Bob Johnson
\* list skill 1, and they still list it.
C36_Witness ==
    \E t \in Threads :
        /\ mem.th[t].pc = "unlock" /\ mem.th[t].op = "Delete"
        /\ mem.th[t].kind = "skills" /\ mem.th[t].id = 1
        /\ ~mem.th[t].got.err
        /\ 1 \notin DOMAIN mem.store.skills
        /\ {1, 3} \subseteq DOMAIN mem.store.consultants
        /\ mem.store.consultants[1].skills = <<1, 2>>
        /\ mem.store.consultants[3].skills = <<1, 3>>

====
